---- MODULE Spec2Model ----
(***************************************************************************)
(* A model of samber/oops: the copy-on-write error builder, the sealed     *)
(* OopsError nodes it produces, and the chain-wide attribute resolution    *)
(* (deepest-wins, merged maps, tag union) of error.go / kv.go.             *)
(*                                                                         *)
(* Go memory that the code shares by reference is kept in two heaps:       *)
(*   arrs : the backing arrays of []string tag slices                      *)
(*   maps : the map[string]any objects (context, userData, tenantData)     *)
(* A builder or node holds a slice header (arr,len,cap) and map            *)
(* references, exactly as the Go struct does.                              *)
(***************************************************************************)
EXTENDS Integers, Sequences, FiniteSets, TLC

VARIABLES
    arrs,   \* heap of string arrays: arrs[i] is a sequence of cap(i) cells
    maps,   \* heap of map[string]any: maps[i] is a function key -> value
    bld,    \* the OopsErrorBuilder values the program holds, in creation order
    errs,   \* the error values created so far; 0 stands for the nil error
    ret,    \* the last call: its name, receiver, argument and result
    thr,    \* goroutines of the concurrent scenarios (idle in sequential runs)
    cfg     \* the package-level variables: the configuration (error.go) and,
            \* in the source-file scenarios, mutex and cache (sources.go)

vars == <<arrs, maps, bld, errs, ret, thr, cfg>>

----------------------------------------------------------------------------
(* Bounds of the model *)

MaxBuilders == 4
MaxErrs == 4
\* the number of errors of a program that also wraps with fmt.Errorf
MaxLongChain == 5
\* the longest chain of pointers a program stores
MaxHops == 13
MaxSetterCalls == 2

----------------------------------------------------------------------------
(* Values of type any stored in the maps *)

StrV(s)  == [k |-> "str", s |-> s]
IntV(i)  == [k |-> "int", v |-> i]
NilV     == [k |-> "nil"]
\* a func() any returning out (nin = 0, nout = 1 is the lazy shape)
FuncV(nin, nout, out) == [k |-> "func", nin |-> nin, nout |-> nout, out |-> out]
LazyV(out) == FuncV(0, 1, out)
\* a pointer: to = NilV for a nil pointer
PtrV(to) == [k |-> "ptr", to |-> to]
\* a map[string]any stored as a value: the reference of the map object
MapV(ref) == [k |-> "map", ref |-> ref]

EmptyMap == <<>>

\* map assignment m[k] = v
MapSet(m, k, v) == (k :> v) @@ m

RECURSIVE AssignSeq(_)
\* lo.Assign(maps...): later maps override earlier ones on a shared key
AssignSeq(ms) ==
    IF ms = <<>> THEN EmptyMap
    ELSE LET n == Len(ms) IN ms[n] @@ AssignSeq(SubSeq(ms, 1, n - 1))

----------------------------------------------------------------------------
(* Slices of strings *)

NilSlice == [arr |-> 0, len |-> 0, cap |-> 0]

\* the elements a slice header sees in heap as
SliceSeq(as, s) == IF s.len = 0 THEN <<>> ELSE SubSeq(as[s.arr], 1, s.len)

\* capacity chosen by append when the slice must grow (gc runtime, cap < 256,
\* 16-byte elements: every multiple of 16 up to 256 is a size class)
GrowCap(oldCap, newLen) == IF newLen > 2 * oldCap THEN newLen ELSE 2 * oldCap

Pad(seq, n) == [i \in 1..n |-> IF i <= Len(seq) THEN seq[i] ELSE ""]

\* append(s, xs...): in place when the capacity allows, else a new array
AppendSlice(as, s, xs) ==
    LET newLen == s.len + Len(xs) IN
    IF Len(xs) = 0 THEN [s |-> s, arrs |-> as]
    ELSE IF newLen <= s.cap
    THEN [s    |-> [s EXCEPT !.len = newLen],
          arrs |-> [as EXCEPT ![s.arr] =
                       [i \in 1..s.cap |->
                           IF i > s.len /\ i <= newLen THEN xs[i - s.len] ELSE @[i]]]]
    ELSE LET nc == GrowCap(s.cap, newLen) IN
         [s    |-> [arr |-> Len(as) + 1, len |-> newLen, cap |-> nc],
          arrs |-> Append(as, Pad(SliceSeq(as, s) \o xs, nc))]

----------------------------------------------------------------------------
(* OopsErrorBuilder (type OopsErrorBuilder OopsError): builder.go *)

\* the value time.Now() returns; time.Time{} is 0
NowT == 1

\* nil *lo.Tuple2 (req, res) and nil *oopsStacktrace
NilT == <<>>

\* newBuilder(): zero values, time.Now(), an empty tag slice and three new
\* empty maps, allocated at the end of heap ms
newBuilder(ms) ==
    [o |-> [kind |-> "oops",
            err |-> 0, msg |-> <<>>, code |-> "", time |-> NowT, duration |-> 0,
            domain |-> "", tags |-> NilSlice, context |-> Len(ms) + 1,
            trace |-> "", span |-> "",
            hint |-> "", public |-> "", owner |-> "",
            userID |-> "", userData |-> Len(ms) + 2,
            tenantID |-> "", tenantData |-> Len(ms) + 3,
            req |-> NilT, res |-> NilT,
            stacktrace |-> NilT],
     maps |-> ms \o <<EmptyMap, EmptyMap, EmptyMap>>]

\* a variant of copy that keeps the receiver's maps instead of copying them
copyShared(o, ms) ==
    [o |-> [o EXCEPT !.err = 0, !.msg = <<>>, !.stacktrace = NilT], maps |-> ms]

\* copy(): every field but err, msg and stacktrace; the tag slice header is
\* copied as it is (same backing array); the three maps are copied into new
\* maps with lo.Assign(map[string]any{}, m)
copy(o, ms) ==
    [o |-> [o EXCEPT !.err = 0, !.msg = <<>>, !.stacktrace = NilT,
                     !.context = Len(ms) + 1,
                     !.userData = Len(ms) + 2,
                     !.tenantData = Len(ms) + 3],
     maps |-> ms \o <<AssignSeq(<<EmptyMap, ms[o.context]>>),
                      AssignSeq(<<EmptyMap, ms[o.userData]>>),
                      AssignSeq(<<EmptyMap, ms[o.tenantData]>>)>>]

\* the receiver of a call made on map heap ms: builder r the program holds,
\* or, for r = 0, the newBuilder() of the package-level function (oops.go)
RecvOn(r, ms) == IF r = 0 THEN newBuilder(ms) ELSE [o |-> bld[r], maps |-> ms]

\* the copy every setter starts from
Copied(r) == copy(RecvOn(r, maps).o, RecvOn(r, maps).maps)

RECURSIVE withPairsShifting(_, _, _)
\* a variant of WithPairs in which a key that is not a string is dropped
\* alone, so that the pairing shifts by one
withPairsShifting(m, kv, i) ==
    IF i >= Len(kv) THEN m
    ELSE IF i + 1 < Len(kv) /\ kv[i + 1].k = "str"
         THEN withPairsShifting(MapSet(m, kv[i + 1].s, kv[i + 2]), kv, i + 2)
         ELSE withPairsShifting(m, kv, i + 1)

RECURSIVE WithPairs(_, _, _)
\* the key/value loop of With, User and Tenant, from index i (0-based) on:
\* a pair is stored when it is complete and its key is a string
WithPairs(m, kv, i) ==
    IF i >= Len(kv) THEN m
    ELSE IF i + 1 < Len(kv) /\ kv[i + 1].k = "str"
         THEN WithPairs(MapSet(m, kv[i + 1].s, kv[i + 2]), kv, i + 2)
         ELSE WithPairs(m, kv, i + 2)

\* the program keeps the builder a setter returned
Keep(op, r, arg, o2, ms, as) ==
    /\ Len(bld) < MaxBuilders
    /\ bld' = Append(bld, o2)
    /\ maps' = ms
    /\ arrs' = as
    /\ ret' = [op |-> op, recv |-> r, arg |-> arg, val |-> Len(bld) + 1]
    /\ UNCHANGED <<errs, thr, cfg>>

\* a setter that overwrites one scalar field of the copy
SetField(op, r, f, v) ==
    LET c == Copied(r) IN Keep(op, r, <<v>>, [c.o EXCEPT ![f] = v], c.maps, arrs)

Code(r, code)         == SetField("Code", r, "code", code)
Time(r, t)            == SetField("Time", r, "time", t)
Since(r, t)           == SetField("Since", r, "duration", NowT - t)
Duration(r, d)        == SetField("Duration", r, "duration", d)
In(r, domain)         == SetField("In", r, "domain", domain)
Trace(r, trace)       == SetField("Trace", r, "trace", trace)
Span(r, span)         == SetField("Span", r, "span", span)
Hint(r, hint)         == SetField("Hint", r, "hint", hint)
Public(r, public)     == SetField("Public", r, "public", public)
Owner(r, owner)       == SetField("Owner", r, "owner", owner)
\* lo.ToPtr(lo.T2(req, withBody)): a new, non-nil tuple
Request(r, req, withBody)  == SetField("Request", r, "req", <<req, withBody>>)
Response(r, res, withBody) == SetField("Response", r, "res", <<res, withBody>>)

\* Tags(tags...): the builder made and the heaps left
TagsOn(r, tags) ==
    LET c == Copied(r)
        a == AppendSlice(arrs, c.o.tags, tags)
    IN  [o |-> [c.o EXCEPT !.tags = a.s], maps |-> c.maps, arrs |-> a.arrs]

Tags(r, tags) ==
    LET n == TagsOn(r, tags) IN Keep("Tags", r, tags, n.o, n.maps, n.arrs)

\* With(kv...): the builder made and the heaps left
WithOn(r, kv) ==
    LET c == Copied(r)
    IN  [o |-> c.o,
         maps |-> [c.maps EXCEPT ![c.o.context] = WithPairs(@, kv, 0)],
         arrs |-> arrs]

With(r, kv) ==
    LET n == WithOn(r, kv) IN Keep("With", r, kv, n.o, n.maps, n.arrs)

User(r, userID, userData) ==
    LET c == Copied(r)
        o2 == [c.o EXCEPT !.userID = userID]
    IN  Keep("User", r, <<userID, userData>>, o2,
             [c.maps EXCEPT ![o2.userData] = WithPairs(@, userData, 0)], arrs)

Tenant(r, tenantID, tenantData) ==
    LET c == Copied(r)
        o2 == [c.o EXCEPT !.tenantID = tenantID]
    IN  Keep("Tenant", r, <<tenantID, tenantData>>, o2,
             [c.maps EXCEPT ![o2.tenantData] = WithPairs(@, tenantData, 0)], arrs)

\* a map[string]any passed as one argument
MapLit(m) == [k |-> "maplit", m |-> m]

\* the package-level User(userID, data) and Tenant(tenantID, data) of oops.go:
\* newBuilder().User(userID, data), the map being the only variadic argument
oops_User(userID, data) == User(0, userID, <<MapLit(data)>>)
oops_Tenant(tenantID, data) == Tenant(0, tenantID, <<MapLit(data)>>)

\* a context.Context: nil, or the values it carries under its keys and the
\* trace and span identifiers of its OpenTelemetry span context ("": none)
NilCtx == [nil |-> TRUE, vals |-> <<>>, trace |-> "", span |-> ""]
Ctx(vals, trace, span) == [nil |-> FALSE, vals |-> vals, trace |-> trace, span |-> span]

\* a key that implements fmt.Stringer and prints as s
StringerV(s) == [k |-> "stringer", s |-> s]

\* fmt.Sprint(k) of a key of another type
Sprint(k) == IF k.k = "int" THEN ToString(k.v) ELSE k.k

\* the string a key is stored under
ContextKeyName(k) ==
    CASE k.k = "stringer"               -> k.s
      [] k.k = "str"                    -> k.s
      [] k.k = "ptr" /\ k.to.k = "str"  -> k.to.s
      [] OTHER                          -> Sprint(k)

\* the key handed to ctx.Value: the string for a Stringer, a string or a
\* *string, the key itself for any other type
ContextLookupKey(k) ==
    CASE k.k = "stringer"               -> StrV(k.s)
      [] k.k = "str"                    -> k
      [] k.k = "ptr" /\ k.to.k = "str"  -> StrV(k.to.s)
      [] OTHER                          -> k

contextValueOrNil(ctx, k) ==
    IF ctx.nil THEN NilV
    ELSE IF k \in DOMAIN ctx.vals THEN ctx.vals[k] ELSE NilV

RECURSIVE WithContextKeys(_, _, _, _)
\* the loop of WithContext over keys, from index i (1-based) on
WithContextKeys(m, ctx, keys, i) ==
    IF i > Len(keys) THEN m
    ELSE WithContextKeys(
             MapSet(m, ContextKeyName(keys[i]),
                    contextValueOrNil(ctx, ContextLookupKey(keys[i]))),
             ctx, keys, i + 1)

\* a variant of WithContext that takes the trace and span of the context even
\* when the context carries none
withContextOverwrites(r, ctx, keys) ==
    LET c == Copied(r)
        o2 == [c.o EXCEPT !.trace = ctx.trace, !.span = ctx.span]
    IN  Keep("WithContext", r, <<ctx, keys>>, o2,
             [c.maps EXCEPT ![o2.context] = WithContextKeys(@, ctx, keys, 1)], arrs)

WithContext(r, ctx, keys) ==
    LET c == Copied(r)
        o2 == [c.o EXCEPT !.trace = IF ctx.trace # "" THEN ctx.trace ELSE @,
                          !.span  = IF ctx.span # "" THEN ctx.span ELSE @]
    IN  Keep("WithContext", r, <<ctx, keys>>, o2,
             [c.maps EXCEPT ![o2.context] = WithContextKeys(@, ctx, keys, 1)], arrs)

----------------------------------------------------------------------------
(* Error values and the terminal operations that seal a builder *)

\* errors.New(text) / fmt.Errorf without %w: an error of another package
Plain(text) == [kind |-> "plain", text |-> text]
\* fmt.Errorf("text: %w", err): an error of another package that unwraps to err
Wrapper(text, err) == [kind |-> "wrapper", text |-> text, err |-> err]
\* errors.Join(es...) with its non-nil arguments
Joined(es) == [kind |-> "join", errs |-> es]

\* ulid.Make().String(): an identifier no earlier call returned; the n-th
\* error value created gets the n-th identifier
Ulids == <<"01A", "01B", "01C", "01D", "01E", "01F", "01G", "01H", "01J", "01K">>
ulidMake(es) == Ulids[Len(es) + 1]

\* newStacktrace(span): the captured frames are tagged with the span
newStacktrace(span) == <<span>>

\* the tail shared by Wrap, Wrapf, New and Errorf: copy the receiver, set the
\* cause (and message), generate a span if there is none, capture the stack
Sealed(r, es, ms, err, msg) ==
    LET c  == copy(RecvOn(r, ms).o, RecvOn(r, ms).maps)
        sp == IF c.o.span = "" THEN ulidMake(es) ELSE c.o.span
    IN  [o    |-> [c.o EXCEPT !.err = err, !.msg = msg, !.span = sp,
                              !.stacktrace = newStacktrace(sp)],
         maps |-> c.maps]

\* what a terminal operation leaves behind: the error heap es, the map heap
\* ms and the returned error val (0 for nil)
Return(op, r, arg, es, ms, val) ==
    /\ Len(es) <= MaxErrs
    /\ errs' = es
    /\ maps' = ms
    /\ ret' = [op |-> op, recv |-> r, arg |-> arg, val |-> val]
    /\ UNCHANGED <<arrs, bld, thr, cfg>>

\* a variant of WrapOn without the nil check
WrapOnNoNilCheck(r, es, ms, err) ==
    LET s == Sealed(r, es, ms, err, <<>>)
    IN  [es |-> Append(es, s.o), maps |-> s.maps, val |-> Len(es) + 1]

\* Wrap on heaps es, ms: nil for a nil cause, else a new node without message
WrapOn(r, es, ms, err) ==
    IF err = 0 THEN [es |-> es, maps |-> ms, val |-> 0]
    ELSE LET s == Sealed(r, es, ms, err, <<>>)
         IN  [es |-> Append(es, s.o), maps |-> s.maps, val |-> Len(es) + 1]

\* Wrapf on heaps es, ms: nil for a nil cause, else a new node with the
\* formatted message
WrapfOn(r, es, ms, err, msg) ==
    IF err = 0 THEN [es |-> es, maps |-> ms, val |-> 0]
    ELSE LET s == Sealed(r, es, ms, err, msg)
         IN  [es |-> Append(es, s.o), maps |-> s.maps, val |-> Len(es) + 1]

Wrap(r, err) ==
    LET w == WrapOn(r, errs, maps, err)
    IN  Return("Wrap", r, err, w.es, w.maps, w.val)

\* format and args are given by the message they format to
Wrapf(r, err, msg) ==
    LET w == WrapfOn(r, errs, maps, err, msg)
    IN  Return("Wrapf", r, err, w.es, w.maps, w.val)

\* Wrap2 .. Wrap10 and Wrapf2 .. Wrapf10 (oops_n.go): the package-level Wrap
\* or Wrapf of the last argument, the other values passed through
WrapN(err) ==
    LET w == WrapOn(0, errs, maps, err)
    IN  Return("WrapN", 0, err, w.es, w.maps, w.val)

WrapfN(err, msg) ==
    LET w == WrapfOn(0, errs, maps, err, msg)
    IN  Return("WrapfN", 0, err, w.es, w.maps, w.val)

\* New(message): the cause is a new errors.New(message)
New(r, text) ==
    LET es == Append(errs, Plain(text))
        s  == Sealed(r, es, maps, Len(es), <<>>)
    IN  Return("New", r, 0, Append(es, s.o), s.maps, Len(es) + 1)

\* Errorf(format, args...): the cause is a new fmt.Errorf(format, args...),
\* which unwraps to w when the format holds %w for the error w
Errorf(r, text, w) ==
    LET es == Append(errs, IF w = 0 THEN Plain(text) ELSE Wrapper(text, w))
        s  == Sealed(r, es, maps, Len(es), <<>>)
    IN  Return("Errorf", r, w, Append(es, s.o), s.maps, Len(es) + 1)

\* errors.Join drops nil arguments and returns nil when none is left
NonNil(es) == SelectSeq(es, LAMBDA e : e # 0)

Join(r, es) ==
    IF NonNil(es) = <<>> THEN Return("Join", r, es, errs, maps, 0)
    ELSE LET h == Append(errs, Joined(NonNil(es)))
             w == WrapOn(r, h, maps, Len(h))
         IN  Return("Join", r, es, w.es, w.maps, w.val)

\* the callback of Recover ends in one of these ways: it returns, it panics
\* with an error value, or it panics with a value that is no error
NoPanic        == [k |-> "none"]
PanicErr(e)    == [k |-> "err", e |-> e]
PanicVal(text) == [k |-> "val", text |-> text]
\* panic(nil): since Go 1.21 (go.mod asks for 1.22) recover() then returns a
\* *runtime.PanicNilError, an error value with this text
PanicNil == [k |-> "nil"]
PanicNilErrorText == <<"panic called with nil argument">>

\* a variant of Assert / Assertf that panics with a node made by a new
\* builder instead of the receiver
assertOnNewBuilder(op, r, condition, text) ==
    IF ~condition
    THEN LET es == Append(errs, Plain(text))
             s  == Sealed(0, es, maps, Len(es), <<>>)
         IN  Return(op, r, <<condition, text>>, Append(es, s.o), s.maps,
                    PanicErr(Len(es) + 1))
    ELSE Keep(op, r, <<condition, text>>, RecvOn(r, maps).o, RecvOn(r, maps).maps, arrs)

\* Assert / Assertf: panic(o.Errorf(..)) when the condition is false, the
\* payload being the node Errorf returns; else return o, the receiver as it
\* is (the struct value, with the same maps and the same tag slice)
AssertOn(op, r, condition, text) ==
    IF ~condition
    THEN LET es == Append(errs, Plain(text))
             s  == Sealed(r, es, maps, Len(es), <<>>)
         IN  Return(op, r, <<condition, text>>, Append(es, s.o), s.maps,
                    PanicErr(Len(es) + 1))
    ELSE Keep(op, r, <<condition, text>>, RecvOn(r, maps).o, RecvOn(r, maps).maps, arrs)

\* Assert(condition); the name Assert is taken by the TLC module
AssertThat(r, condition) == AssertOn("Assert", r, condition, <<"assertion failed">>)

\* text is the message formatted from msg and args
Assertf(r, condition, text) == AssertOn("Assertf", r, condition, text)

\* a variant of Recover that returns nil when the payload is no error
recoverOnErrorsOnly(r, es, ms, p) ==
    CASE p.k = "err" -> WrapOn(r, es, ms, p.e)
      [] OTHER       -> [es |-> es, maps |-> ms, val |-> 0]

\* a variant of Recover for which recover() returns nil after panic(nil), as
\* it did before Go 1.21
recoverOnNilPayloadLost(r, es, ms, p) ==
    CASE p.k \in {"none", "nil"} -> [es |-> es, maps |-> ms, val |-> 0]
      [] p.k = "err"  -> WrapOn(r, es, ms, p.e)
      [] p.k = "val"  -> WrapOn(r, Append(es, Plain(p.text)), ms, Len(es) + 1)

\* Recover on heaps es, ms: nil without panic, Wrap(e) for a panic with the
\* error e (the PanicNilError of panic(nil) is one), and
\* Wrap(fmt.Errorf("%v", r)) for any other payload r
RecoverOn(r, es, ms, p) ==
    CASE p.k = "none" -> [es |-> es, maps |-> ms, val |-> 0]
      [] p.k = "err"  -> WrapOn(r, es, ms, p.e)
      [] p.k = "nil"  -> WrapOn(r, Append(es, Plain(PanicNilErrorText)), ms, Len(es) + 1)
      [] p.k = "val"  -> WrapOn(r, Append(es, Plain(p.text)), ms, Len(es) + 1)

Recover(r, p) ==
    LET w == RecoverOn(r, errs, maps, p)
    IN  Return("Recover", r, p, w.es, w.maps, w.val)

\* Recoverf(cb, msg, args...) is o.Wrapf(o.Recover(cb), msg, args...)
Recoverf(r, p, msg) ==
    LET w  == RecoverOn(r, errs, maps, p)
        w2 == WrapfOn(r, w.es, w.maps, w.val, msg)
    IN  Return("Recoverf", r, p, w2.es, w2.maps, w2.val)

\* OopsError{msg: msg, err: err}: a node written as a struct literal, every
\* other field at its zero value (the nil maps read as empty maps)
Literal(msg, err) ==
    LET b == newBuilder(maps)
        o == [b.o EXCEPT !.time = 0, !.msg = msg, !.err = err]
    IN  Return("Literal", 0, err, Append(errs, o), b.maps, Len(errs) + 1)

----------------------------------------------------------------------------
(* Walking the chain: helpers.go, kv.go, error.go *)

Range(seq) == {seq[i] : i \in 1..Len(seq)}

\* a variant of AsOops that looks at the error itself and not below it
asOopsDirect(e) == IF e # 0 /\ errs[e].kind = "oops" THEN e ELSE 0

RECURSIVE AsOops(_)
RECURSIVE FirstOops(_, _)
RECURSIVE lastOops(_, _)
\* a variant of FirstOops that searches the joined errors from the last to the
\* first
lastOops(es, i) ==
    IF i > Len(es) THEN 0
    ELSE IF lastOops(es, i + 1) # 0 THEN lastOops(es, i + 1) ELSE AsOops(es[i])

\* errors.As(err, &OopsError{}): the first OopsError met going down Unwrap,
\* depth-first and in argument order through a joined error; 0 when none
AsOops(e) ==
    IF e = 0 THEN 0
    ELSE CASE errs[e].kind = "oops"    -> e
           [] errs[e].kind = "wrapper" -> AsOops(errs[e].err)
           [] errs[e].kind = "join"    -> FirstOops(errs[e].errs, 1)
           [] OTHER                    -> 0

FirstOops(es, i) ==
    IF i > Len(es) THEN 0
    ELSE IF AsOops(es[i]) # 0 THEN AsOops(es[i]) ELSE FirstOops(es, i + 1)

RECURSIVE errorsAs(_, _)
RECURSIVE FirstAs(_, _, _)
\* errors.As(err, &target) for a target of the type of the errors of kind
\* kind: the first error of that type met going down Unwrap, depth-first
\* through a joined error; 0 when none.  No error type here has an As method
errorsAs(e, kind) ==
    IF e = 0 THEN 0
    ELSE IF errs[e].kind = kind THEN e
    ELSE CASE errs[e].kind \in {"oops", "wrapper"} -> errorsAs(errs[e].err, kind)
           [] errs[e].kind = "join" -> FirstAs(errs[e].errs, kind, 1)
           [] OTHER -> 0

FirstAs(es, kind, i) ==
    IF i > Len(es) THEN 0
    ELSE IF errorsAs(es[i], kind) # 0 THEN errorsAs(es[i], kind)
    ELSE FirstAs(es, kind, i + 1)

\* reflectlite.TypeOf(target).Comparable(): *errorString, *wrapError and
\* *joinError are pointers; OopsError is a struct with slice and map fields
Comparable(target) == errs[target].kind # "oops"

RECURSIVE errorsIsLoop(_, _)
\* the loop of errors.Is: err matches when it is comparable and equal to
\* target (the same pointer), or when its Is method says so (OopsError.Is
\* is errors.Is(c.err, target)); else the loop goes on with Unwrap()
errorsIsLoop(err, target) ==
    LET k == errs[err].kind IN
    IF Comparable(target) /\ err = target THEN TRUE
    ELSE IF k = "oops" /\ errs[err].err # 0 /\ errorsIsLoop(errs[err].err, target)
         THEN TRUE
    ELSE CASE k \in {"oops", "wrapper"} ->
                  errs[err].err # 0 /\ errorsIsLoop(errs[err].err, target)
           [] k = "join" ->
                  \E i \in 1..Len(errs[err].errs) : errorsIsLoop(errs[err].errs[i], target)
           [] OTHER -> FALSE

\* errors.Is(err, target)
errorsIs(err, target) ==
    IF err = 0 \/ target = 0 THEN err = target ELSE errorsIsLoop(err, target)

\* OopsError.Is(target)
OopsError_Is(e, target) == errorsIs(errs[e].err, target)

\* OopsError.Unwrap()
OopsError_Unwrap(e) == errs[e].err

\* the zero value of the type of field f
Zero(f) ==
    CASE f \in {"time", "duration"} -> 0
      [] f \in {"req", "res"}       -> NilT
      [] OTHER                      -> ""

RECURSIVE Coalesce(_, _)
\* lo.Coalesce: the first value that is not zero, else zero
Coalesce(vs, zero) ==
    IF vs = <<>> THEN zero
    ELSE IF vs[1] # zero THEN vs[1] ELSE Coalesce(Tail(vs), zero)

\* a variant that prefers the node's own value to its cause's
coalesceOuterFirst(vs, zero) ==
    Coalesce([i \in 1..Len(vs) |-> vs[Len(vs) + 1 - i]], zero)

coalesceOrEmpty(vs, zero) == Coalesce(vs, zero)

RECURSIVE getDeepestErrorAttribute(_, _)
\* the getter is given by the field f it reads
getDeepestErrorAttribute(e, f) ==
    LET child == AsOops(errs[e].err) IN
    IF errs[e].err = 0 THEN errs[e][f]
    ELSE IF child # 0
         THEN coalesceOrEmpty(<<getDeepestErrorAttribute(child, f), errs[e][f]>>, Zero(f))
         ELSE errs[e][f]

RECURSIVE recursive(_)
\* recursive(err, tap) with a tap that always returns true: the nodes
\* visited, outermost first
recursive(e) ==
    LET child == AsOops(errs[e].err) IN
    IF errs[e].err = 0 \/ child = 0 THEN <<e>> ELSE <<e>> \o recursive(child)

RECURSIVE uniqKeepLast(_)
\* a variant of lo.Uniq that keeps every value at its last position
uniqKeepLast(seq) ==
    IF seq = <<>> THEN <<>>
    ELSE LET rest == uniqKeepLast(Tail(seq))
         IN  IF Head(seq) \in Range(rest) THEN rest ELSE <<Head(seq)>> \o rest

RECURSIVE Uniq(_)
\* lo.Uniq: every value once, at its first position
Uniq(seq) ==
    IF seq = <<>> THEN <<>>
    ELSE LET init == Uniq(SubSeq(seq, 1, Len(seq) - 1))
             last == seq[Len(seq)]
         IN  IF last \in Range(init) THEN init ELSE Append(init, last)

RECURSIVE ConcatTags(_)
ConcatTags(nodes) ==
    IF nodes = <<>> THEN <<>>
    ELSE SliceSeq(arrs, errs[nodes[1]].tags) \o ConcatTags(Tail(nodes))

OopsError_Code(e)     == getDeepestErrorAttribute(e, "code")
OopsError_Time(e)     == getDeepestErrorAttribute(e, "time")
OopsError_Duration(e) == getDeepestErrorAttribute(e, "duration")
OopsError_Domain(e)   == getDeepestErrorAttribute(e, "domain")
OopsError_Hint(e)     == getDeepestErrorAttribute(e, "hint")
OopsError_Public(e)   == getDeepestErrorAttribute(e, "public")
OopsError_Owner(e)    == getDeepestErrorAttribute(e, "owner")
OopsError_request(e)  == getDeepestErrorAttribute(e, "req")
OopsError_response(e) == getDeepestErrorAttribute(e, "res")
\* a variant of Span() resolved like Code()
spanDeepest(e)        == getDeepestErrorAttribute(e, "span")
OopsError_Span(e)     == errs[e].span

\* Tags(): the tags of every visited node, appended in visiting order, then
\* lo.Uniq
OopsError_Tags(e) == Uniq(ConcatTags(recursive(e)))

\* a variant of HasTag that looks at the node's own tags only
hasTagOwnOnly(e, tag) == tag \in Range(SliceSeq(arrs, errs[e].tags))

RECURSIVE OopsError_HasTag(_, _)
\* HasTag(tag): the walk stops at the first node whose tags contain tag
OopsError_HasTag(e, tag) ==
    LET child == AsOops(errs[e].err) IN
    IF tag \in Range(SliceSeq(arrs, errs[e].tags)) THEN TRUE
    ELSE IF errs[e].err = 0 \/ child = 0 THEN FALSE
    ELSE OopsError_HasTag(child, tag)

RECURSIVE HasTagTaps(_, _)
\* the nodes the visitor of HasTag(tag) is called on, in order: recursive()
\* returns as soon as the visitor returns false, which it does once found
HasTagTaps(e, tag) ==
    LET child == AsOops(errs[e].err) IN
    IF tag \in Range(SliceSeq(arrs, errs[e].tags)) THEN <<e>>
    ELSE IF errs[e].err = 0 \/ child = 0 THEN <<e>>
    ELSE <<e>> \o HasTagTaps(child, tag)

\* a variant of the format "%s: %s" without the separator
sprintfNoSeparator(msg, text) == msg \o text

\* fmt.Sprintf("%s: %s", msg, text)
Sprintf(msg, text) == msg \o <<": ">> \o text

RECURSIVE JoinText(_, _)
RECURSIVE OopsError_Error(_)
\* err.Error() of any error value, as a sequence of string pieces
OopsError_Error(e) ==
    CASE errs[e].kind = "plain"   -> errs[e].text
      [] errs[e].kind = "wrapper" -> errs[e].text \o OopsError_Error(errs[e].err)
      [] errs[e].kind = "join"    -> JoinText(errs[e].errs, 1)
      [] errs[e].kind = "oops"    ->
            IF errs[e].err # 0
            THEN IF errs[e].msg = <<>>
                 THEN OopsError_Error(errs[e].err)
                 ELSE Sprintf(errs[e].msg, OopsError_Error(errs[e].err))
            ELSE errs[e].msg

\* joinError.Error(): the texts separated by newlines
JoinText(es, i) ==
    IF i > Len(es) THEN <<>>
    ELSE IF i = Len(es) THEN OopsError_Error(es[i])
    ELSE OopsError_Error(es[i]) \o <<"\n">> \o JoinText(es, i + 1)

----------------------------------------------------------------------------
(* Resolving the context, user and tenant maps: kv.go, error.go *)

\* the hops dereferencePointerRecursive follows before it gives up
MaxDerefDepth == 10

\* a variant of mergeNestedErrorMap in which the node's own map is laid over
\* the map of its cause
RECURSIVE mergeOuterWins(_, _, _)
mergeOuterWins(ms, e, f) ==
    LET child == AsOops(errs[e].err) IN
    IF errs[e].err = 0 \/ child = 0
    THEN [alias |-> errs[e][f], m |-> ms[errs[e][f]]]
    ELSE [alias |-> 0,
          m |-> AssignSeq(<<EmptyMap, mergeOuterWins(ms, child, f).m, ms[errs[e][f]]>>)]

RECURSIVE mergeNestedErrorMap(_, _, _)
\* the getter is given by the field f that holds the map.  The result is the
\* node's own map object (alias: its reference) when the node has no cause or
\* its cause holds no OopsError, else a new map (alias 0) made by
\* lo.Assign(map[string]any{}, getter(err), mergeNestedErrorMap(child, getter))
mergeNestedErrorMap(ms, e, f) ==
    LET child == AsOops(errs[e].err) IN
    IF errs[e].err = 0 THEN [alias |-> errs[e][f], m |-> ms[errs[e][f]]]
    ELSE IF child # 0
         THEN [alias |-> 0,
               m |-> AssignSeq(<<EmptyMap, ms[errs[e][f]],
                                 mergeNestedErrorMap(ms, child, f).m>>)]
         ELSE [alias |-> errs[e][f], m |-> ms[errs[e][f]]]

\* a variant of lazyValueEvaluation that calls every function
lazyCallAny(value) == IF value.k = "func" THEN value.out ELSE value

\* a function with no parameter and one result is called, anything else is
\* returned as it is
lazyValueEvaluation(value) ==
    IF value.k # "func" THEN value
    ELSE IF value.nin # 0 \/ value.nout # 1 THEN value
    ELSE value.out

RECURSIVE lazyMapEvaluationKeys(_, _, _)
\* one turn of the loop of lazyMapEvaluation, for key of the map at reference
\* d: the entry is written back, a nested map after its own evaluation
lazyMapEvaluationKey(ms, d, key) ==
    LET value == ms[d][key] IN
    IF value.k = "map"
    THEN lazyMapEvaluationKeys(ms, value.ref, DOMAIN ms[value.ref])
    ELSE [ms EXCEPT ![d] = MapSet(@, key, lazyValueEvaluation(value))]

\* the loop of lazyMapEvaluation over the keys ks of the map at reference d
lazyMapEvaluationKeys(ms, d, ks) ==
    IF ks = {} THEN ms
    ELSE LET key == CHOOSE k \in ks : TRUE
         IN  lazyMapEvaluationKeys(lazyMapEvaluationKey(ms, d, key), d, ks \ {key})

\* lazyMapEvaluation(data) works on data itself and returns it
lazyMapEvaluation(ms, d) == lazyMapEvaluationKeys(ms, d, DOMAIN ms[d])

RECURSIVE dereferencePointerRecursive(_, _)
dereferencePointerRecursive(val, depth) ==
    IF val.to = NilV THEN NilV
    ELSE IF depth > MaxDerefDepth THEN val
    ELSE IF val.to.k = "ptr" THEN dereferencePointerRecursive(val.to, depth + 1)
    ELSE val.to

dereferencePointer(val) ==
    IF val.to = NilV THEN NilV ELSE dereferencePointerRecursive(val, 0)

\* one turn of the loop of dereferencePointers: what the entry holds after it
dereferencePointersKey(value) ==
    IF value.k = "ptr" THEN dereferencePointer(value) ELSE value

\* a variant of dereferencePointers that does not look at the toggle
dereferencePointersAlways(ms, d) ==
    [ms EXCEPT ![d] = [key \in DOMAIN @ |-> dereferencePointersKey(@[key])]]

\* dereferencePointers(data) works on data itself: every top-level pointer is
\* replaced, unless the DereferencePointers toggle is off
dereferencePointers(ms, d) ==
    IF ~cfg.DereferencePointers THEN ms
    ELSE [ms EXCEPT ![d] = [key \in DOMAIN @ |-> dereferencePointersKey(@[key])]]

\* dereferencePointers(lazyMapEvaluation(mergeNestedErrorMap(o, getter))):
\* the heap it leaves behind and the map it returns.  A new merged map lives
\* at the end of the heap while it is worked on and is dropped from the model
\* once returned
ResolveMapOn(ms, e, f) ==
    LET mg  == mergeNestedErrorMap(ms, e, f)
        h0  == IF mg.alias = 0 THEN Append(ms, mg.m) ELSE ms
        d   == IF mg.alias = 0 THEN Len(h0) ELSE mg.alias
        h2  == dereferencePointers(lazyMapEvaluation(h0, d), d)
    IN  [maps |-> IF mg.alias = 0 THEN SubSeq(h2, 1, Len(ms)) ELSE h2,
         val  |-> h2[d]]

\* the same on the program's heap
ResolveMap(e, f) == ResolveMapOn(maps, e, f)

\* a getter called by the program: the heap it leaves and what it returns
Got(op, e, ms, val) ==
    /\ maps' = ms
    /\ ret' = [op |-> op, recv |-> e, arg |-> 0, val |-> val]
    /\ UNCHANGED <<arrs, bld, errs, thr, cfg>>

OopsError_Context(e) ==
    LET r == ResolveMap(e, "context") IN Got("OopsError.Context", e, r.maps, r.val)

OopsError_User(e) ==
    LET r == ResolveMap(e, "userData")
    IN  Got("OopsError.User", e, r.maps, <<getDeepestErrorAttribute(e, "userID"), r.val>>)

OopsError_Tenant(e) ==
    LET r == ResolveMap(e, "tenantData")
    IN  Got("OopsError.Tenant", e, r.maps, <<getDeepestErrorAttribute(e, "tenantID"), r.val>>)

\* a variant of Trace() without the generated default
traceNoDefault(e, u) == getDeepestErrorAttribute(e, "trace")

\* Trace(): the innermost trace of the chain, else ulid.Make().String(), here
\* the new identifier u, which is not stored
OopsError_Trace(e, u) ==
    LET trace == getDeepestErrorAttribute(e, "trace")
    IN  IF trace # "" THEN trace ELSE u

\* Stacktrace(): the frames of the visited nodes that captured any; the
\* empty text when none did
OopsError_Stacktrace(e) ==
    SelectSeq([i \in 1..Len(recursive(e)) |-> errs[recursive(e)[i]].stacktrace],
              LAMBDA st : st # NilT)

\* a request whose body cannot be read: dumping it with its body fails
BrokenBody == "POST /unreadable"

\* httputil.DumpRequestOut(req.A, req.B) and httputil.DumpResponse(res.A,
\* res.B): the text, or an error
Dump(t) ==
    IF t[1] = BrokenBody /\ t[2] THEN [ok |-> FALSE, text |-> <<>>]
    ELSE [ok |-> TRUE, text |-> <<t[1], IF t[2] THEN "+body" ELSE "">>]

\* duration.String() and t.In(Local), Local being UTC
DurationString(d) == <<d, "ns">>
InLocal(t) == [t |-> t, loc |-> "UTC"]

\* one optional entry of an exported map
Entry(present, k, v) == IF present THEN (k :> v) ELSE EmptyMap

\* a variant of IdObject that writes the id even when it is empty
idObjectAlways(id, data) ==
    MapSet(AssignSeq(<<EmptyMap, data>>), "id", StrV(id))

\* the user / tenant object of ToMap: the data, and the id laid over it
IdObject(id, data) ==
    IF id # "" THEN MapSet(AssignSeq(<<EmptyMap, data>>), "id", StrV(id))
    ELSE AssignSeq(<<EmptyMap, data>>)

\* ToMap(), u being the identifier Trace() generates when it has to: the
\* heap left by Context(), User() and Tenant() and the payload.  Sources are
\* hidden (SourceFragmentsHidden is true)
ToMapOn(e, u) ==
    LET c   == ResolveMapOn(maps, e, "context")
        us  == ResolveMapOn(c.maps, e, "userData")
        te  == ResolveMapOn(us.maps, e, "tenantData")
        uid == getDeepestErrorAttribute(e, "userID")
        tid == getDeepestErrorAttribute(e, "tenantID")
        req == OopsError_request(e)
        res == OopsError_response(e)
    IN  [maps |-> te.maps,
         val  |->
            Entry(OopsError_Error(e) # <<>>, "error", OopsError_Error(e))
            @@ Entry(OopsError_Code(e) # "", "code", OopsError_Code(e))
            @@ Entry(OopsError_Time(e) # 0, "time", InLocal(OopsError_Time(e)))
            @@ Entry(OopsError_Duration(e) # 0, "duration",
                     DurationString(OopsError_Duration(e)))
            @@ Entry(OopsError_Domain(e) # "", "domain", OopsError_Domain(e))
            @@ Entry(Len(OopsError_Tags(e)) > 0, "tags", OopsError_Tags(e))
            @@ Entry(DOMAIN c.val # {}, "context", c.val)
            @@ Entry(OopsError_Trace(e, u) # "", "trace", OopsError_Trace(e, u))
            @@ Entry(OopsError_Hint(e) # "", "hint", OopsError_Hint(e))
            @@ Entry(OopsError_Public(e) # "", "public", OopsError_Public(e))
            @@ Entry(OopsError_Owner(e) # "", "owner", OopsError_Owner(e))
            @@ Entry(uid # "" \/ DOMAIN us.val # {}, "user", IdObject(uid, us.val))
            @@ Entry(tid # "" \/ DOMAIN te.val # {}, "tenant", IdObject(tid, te.val))
            @@ Entry(req # NilT /\ Dump(req).ok, "request", Dump(req).text)
            @@ Entry(res # NilT /\ Dump(res).ok, "response", Dump(res).text)
            @@ Entry(OopsError_Stacktrace(e) # <<>>, "stacktrace",
                     OopsError_Stacktrace(e))]

\* lo.MapToSlice(m, slog.Any): one attribute per entry, in the order of the
\* map iteration, which is not fixed: the attributes as a set
MapToSlice(m) == {<<k, m[k]>> : k \in DOMAIN m}

\* the user / tenant group of LogValue: the id and the data when the id is
\* not empty, nothing otherwise
IdGroup(id, data) ==
    IF id # "" THEN {<<"id", StrV(id)>>} \cup MapToSlice(data) ELSE {}

\* one optional attribute of LogValue
Attr(present, k, v) == IF present THEN <<<<k, v>>>> ELSE <<>>

\* LogValue(): the heap left and the attributes in order, a group being the
\* set of its attributes
LogValueOn(e, u) ==
    LET c   == ResolveMapOn(maps, e, "context")
        us  == ResolveMapOn(c.maps, e, "userData")
        te  == ResolveMapOn(us.maps, e, "tenantData")
        uid == getDeepestErrorAttribute(e, "userID")
        tid == getDeepestErrorAttribute(e, "tenantID")
        req == OopsError_request(e)
        res == OopsError_response(e)
    IN  [maps |-> te.maps,
         val  |->
            <<<<"message", errs[e].msg>>>>
            \o Attr(OopsError_Error(e) # <<>>, "err", OopsError_Error(e))
            \o Attr(OopsError_Code(e) # "", "code", OopsError_Code(e))
            \o Attr(OopsError_Time(e) # 0, "time", InLocal(OopsError_Time(e)))
            \o Attr(OopsError_Duration(e) # 0, "duration", OopsError_Duration(e))
            \o Attr(OopsError_Domain(e) # "", "domain", OopsError_Domain(e))
            \o Attr(Len(OopsError_Tags(e)) > 0, "tags", OopsError_Tags(e))
            \o Attr(OopsError_Trace(e, u) # "", "trace", OopsError_Trace(e, u))
            \o Attr(OopsError_Hint(e) # "", "hint", OopsError_Hint(e))
            \o Attr(OopsError_Public(e) # "", "public", OopsError_Public(e))
            \o Attr(OopsError_Owner(e) # "", "owner", OopsError_Owner(e))
            \o Attr(DOMAIN c.val # {}, "context", MapToSlice(c.val))
            \o Attr(uid # "" \/ DOMAIN us.val # {}, "user", IdGroup(uid, us.val))
            \o Attr(tid # "" \/ DOMAIN te.val # {}, "tenant", IdGroup(tid, te.val))
            \o Attr(req # NilT /\ Dump(req).ok, "request", Dump(req).text)
            \o Attr(res # NilT /\ Dump(res).ok, "response", Dump(res).text)
            \o Attr(OopsError_Stacktrace(e) # <<>>, "stacktrace",
                    OopsError_Stacktrace(e))]

\* the user / tenant lines of the verbose output: the id when it is not
\* empty, and the data
IdLines(id, data) ==
    (IF id # "" THEN {<<"id", StrV(id)>>} ELSE {}) \cup MapToSlice(data)

\* formatVerbose(), the output of the verb %+v: the heap left and the labelled
\* parts in order, the lines under Context, User and Tenant as a set
formatVerboseOn(e, u) ==
    LET c   == ResolveMapOn(maps, e, "context")
        us  == ResolveMapOn(c.maps, e, "userData")
        te  == ResolveMapOn(us.maps, e, "tenantData")
        uid == getDeepestErrorAttribute(e, "userID")
        tid == getDeepestErrorAttribute(e, "tenantID")
        req == OopsError_request(e)
        res == OopsError_response(e)
    IN  [maps |-> te.maps,
         val  |->
            <<<<"Oops", OopsError_Error(e)>>>>
            \o Attr(OopsError_Code(e) # "", "Code", OopsError_Code(e))
            \o Attr(OopsError_Time(e) # 0, "Time", InLocal(OopsError_Time(e)))
            \o Attr(OopsError_Duration(e) # 0, "Duration",
                    DurationString(OopsError_Duration(e)))
            \o Attr(OopsError_Domain(e) # "", "Domain", OopsError_Domain(e))
            \o Attr(Len(OopsError_Tags(e)) > 0, "Tags", OopsError_Tags(e))
            \o Attr(OopsError_Trace(e, u) # "", "Trace", OopsError_Trace(e, u))
            \o Attr(OopsError_Hint(e) # "", "Hint", OopsError_Hint(e))
            \o Attr(OopsError_Owner(e) # "", "Owner", OopsError_Owner(e))
            \o Attr(DOMAIN c.val # {}, "Context", MapToSlice(c.val))
            \o Attr(uid # "" \/ DOMAIN us.val # {}, "User", IdLines(uid, us.val))
            \o Attr(tid # "" \/ DOMAIN te.val # {}, "Tenant", IdLines(tid, te.val))
            \o Attr(req # NilT /\ Dump(req).ok, "Request", Dump(req).text)
            \o Attr(res # NilT /\ Dump(res).ok, "Response", Dump(res).text)
            \o Attr(OopsError_Stacktrace(e) # <<>>, "Stacktrace",
                    OopsError_Stacktrace(e))]

\* the identifiers ulid.Make() can return to Trace()
TraceUlids == {"01X", "01Y", "01Z"}

\* the trace the last call returned or exported, "" if it did not
LastTrace ==
    CASE ret.op = "OopsError.Trace" -> ret.val
      [] ret.op = "OopsError.ToMap" -> ret.val["trace"]
      [] ret.op = "OopsError.LogValue" ->
            (CHOOSE a \in Range(ret.val) : a[1] = "trace")[2]
      [] ret.op = "OopsError.Format" ->
            (CHOOSE a \in Range(ret.val) : a[1] = "Trace")[2]
      [] OTHER -> ""

\* ulid.Make() never returns an identifier twice
FreshUlids == TraceUlids \ {LastTrace}

\* the program calls err.Trace(), err.ToMap() and err.LogValue(); every call
\* generates its own identifier
CallTrace(e) ==
    \E u \in FreshUlids : Got("OopsError.Trace", e, maps, OopsError_Trace(e, u))

CallToMap(e) ==
    \E u \in FreshUlids :
        LET out == ToMapOn(e, u) IN Got("OopsError.ToMap", e, out.maps, out.val)

CallLogValue(e) ==
    \E u \in FreshUlids :
        LET out == LogValueOn(e, u) IN Got("OopsError.LogValue", e, out.maps, out.val)

\* the program formats err with the verb %+v
CallFormatVerbose(e) ==
    \E u \in FreshUlids :
        LET out == formatVerboseOn(e, u) IN Got("OopsError.Format", e, out.maps, out.val)

\* the program calls err.Tags()
CallTags(e) == Got("OopsError.Tags", e, maps, OopsError_Tags(e))

\* the program calls err.Span()
CallSpan(e) == Got("OopsError.Span", e, maps, OopsError_Span(e))

\* the program calls err.HasTag(tag)
CallHasTag(e, tag) ==
    /\ maps' = maps
    /\ ret' = [op |-> "OopsError.HasTag", recv |-> e, arg |-> tag,
               val |-> OopsError_HasTag(e, tag)]
    /\ UNCHANGED <<arrs, bld, errs, thr, cfg>>

----------------------------------------------------------------------------
(* The program: initial state and the calls it makes *)

\* before the first call: no builder, one error of another package
Init ==
    /\ arrs = <<>>
    /\ maps = <<>>
    /\ bld = <<>>
    /\ errs = <<Plain(<<"e1">>)>>
    /\ ret = [op |-> "init", recv |-> 0, arg |-> 0, val |-> 0]
    /\ thr = <<>>
    /\ cfg = [DereferencePointers |-> TRUE]

\* argument values
StrVals  == {"A", "B"}
TimeVals == {2, 3}
SinceVals == {-1, 0}
ReqVals  == {"GET /foo", "GET /bar"}

\* the scalar fields resolved by getDeepestErrorAttribute
DeepFields ==
    {"code", "time", "duration", "domain", "hint", "public", "owner",
     "userID", "tenantID", "req", "res"}

\* the latest builder (0: none, the package-level function is called) and
\* the latest error
LastBld == Len(bld)
LastErr == Len(errs)
IsNode(e) == errs[e].kind = "oops"
Nodes == {e \in 1..Len(errs) : IsNode(e)}

\* a program that uses the setter of field f and no other setter
Default(g) == IF g = "time" THEN NowT ELSE Zero(g)

Only(f) ==
    \A i \in 1..Len(bld) : \A g \in DeepFields \ {f} : bld[i][g] = Default(g)

\* the calls that return a builder
SetterOps ==
    {"Code", "Time", "Since", "Duration", "In", "Tags", "With", "WithContext",
     "Trace", "Span", "Hint", "Public", "Owner", "User", "Tenant", "Request",
     "Response"}

\* the program is between two statements, or in the middle of a call chain
\* oops.<Setter>(..).<Terminal>(..) whose receiver is the builder just made
AtStart == ret.op \notin SetterOps
Chained == IF AtStart THEN 0 ELSE LastBld

\* programs made of statements err = oops.<Setter>(v).Wrap(err) and
\* err = oops.Wrap(err), one scalar attribute per program
NextAttr ==
    \/ \E v \in StrVals : AtStart /\ Only("code") /\ Code(0, v)
    \/ \E v \in TimeVals : AtStart /\ Only("time") /\ Time(0, v)
    \/ \E v \in SinceVals : AtStart /\ Only("duration") /\ Since(0, v)
    \/ \E v \in TimeVals : AtStart /\ Only("duration") /\ Duration(0, v)
    \/ \E v \in StrVals : AtStart /\ Only("domain") /\ In(0, v)
    \/ \E v \in StrVals : AtStart /\ Only("hint") /\ Hint(0, v)
    \/ \E v \in StrVals : AtStart /\ Only("public") /\ Public(0, v)
    \/ \E v \in StrVals : AtStart /\ Only("owner") /\ Owner(0, v)
    \/ \E v \in StrVals : AtStart /\ Only("userID") /\ User(0, v, <<>>)
    \/ \E v \in StrVals : AtStart /\ Only("tenantID") /\ Tenant(0, v, <<>>)
    \/ \E v \in ReqVals : AtStart /\ Only("req") /\ Request(0, v, TRUE)
    \/ \E v \in ReqVals : AtStart /\ Only("res") /\ Response(0, v, TRUE)
    \/ Wrap(Chained, LastErr)

SpecAttr == Init /\ [][NextAttr]_vars

----------------------------------------------------------------------------
(* C1 *)

RECURSIVE NodeChain(_)
\* the chain n1 (outermost) .. nk (innermost) of nodes below node e, each
\* the cause of the one before
NodeChain(e) ==
    IF errs[e].err # 0 /\ IsNode(errs[e].err)
    THEN <<e>> \o NodeChain(errs[e].err) ELSE <<e>>

\* the value of field f on the innermost node of chain whose value is not
\* zero, and zero when every node has zero
InnermostSet(chain, f) ==
    LET set == {i \in 1..Len(chain) : errs[chain[i]][f] # Zero(f)}
    IN  IF set = {} THEN Zero(f)
        ELSE errs[chain[CHOOSE i \in set : \A j \in set : j <= i]][f]

\* C1: on every chain and for every attribute resolved deepest-first, the
\* getter of the outermost node returns the value of the innermost node that
\* set it, and the zero value only if no node set it
C1_DeepestWins ==
    \A e \in Nodes : \A f \in DeepFields :
        getDeepestErrorAttribute(e, f) = InnermostSet(NodeChain(e), f)

\* a chain of three nodes in which the outermost and the innermost node set
\* different codes and the middle one set none: the innermost code is returned
C1_Witness ==
    \E e \in Nodes :
        /\ Len(NodeChain(e)) >= 3
        /\ errs[e].code = "A"
        /\ errs[NodeChain(e)[2]].code = ""
        /\ errs[NodeChain(e)[3]].code = "B"
        /\ OopsError_Code(e) = "B"

----------------------------------------------------------------------------
(* Programs that attach context, user data or tenant data to a chain *)

\* the three fields that hold a map
MapFields == {"context", "userData", "tenantData"}

\* before the first call, the program also holds a map of its own, later
\* passed as a value: {"z": func() any { return 5 }}
InitCtx ==
    /\ arrs = <<>>
    /\ maps = <<("z" :> LazyV(IntV(5)))>>
    /\ bld = <<>>
    /\ errs = <<Plain(<<"e1">>)>>
    /\ ret = [op |-> "init", recv |-> 0, arg |-> 0, val |-> 0]
    /\ thr = <<>>
    /\ cfg = [DereferencePointers |-> TRUE]

\* key/value arguments: plain values, a lazy function, a pointer, a map
KvArgs ==
    {<<StrV("x"), IntV(1)>>,
     <<StrV("x"), IntV(2)>>,
     <<StrV("x"), LazyV(IntV(3))>>,
     <<StrV("y"), PtrV(IntV(4))>>,
     <<StrV("y"), MapV(1)>>,
     <<StrV("x"), IntV(1), StrV("y"), IntV(2)>>}

\* a program that uses the map of field f and no other map
OnlyMap(f) ==
    \A i \in 1..Len(bld) : \A g \in MapFields \ {f} : maps[bld[i][g]] = EmptyMap

\* statements err = oops.With(kv...).Wrap(err), err = oops.Wrap(err) and
\* calls of err.Context(), err.User() and err.Tenant() in between
NextCtx ==
    \/ \E kv \in KvArgs : AtStart /\ OnlyMap("context") /\ With(0, kv)
    \/ \E kv \in KvArgs : AtStart /\ OnlyMap("userData") /\ User(0, "A", kv)
    \/ \E kv \in KvArgs : AtStart /\ OnlyMap("tenantData") /\ Tenant(0, "A", kv)
    \/ Wrap(Chained, LastErr)
    \/ AtStart /\ IsNode(LastErr) /\ OopsError_Context(LastErr)
    \/ AtStart /\ IsNode(LastErr) /\ OopsError_User(LastErr)
    \/ AtStart /\ IsNode(LastErr) /\ OopsError_Tenant(LastErr)

SpecCtx == InitCtx /\ [][NextCtx]_vars

----------------------------------------------------------------------------
(* C2 *)

\* what a stored value reads as once resolved: a lazy function is called,
\* then a pointer is followed to the value it points to
ResolvedValue(v) ==
    LET w == IF v.k = "func" /\ v.nin = 0 /\ v.nout = 1 THEN v.out ELSE v
    IN  IF w.k = "ptr" /\ cfg.DereferencePointers
        THEN (IF w.to = NilV THEN NilV
              ELSE IF w.to.k = "ptr" THEN dereferencePointer(w) ELSE w.to)
        ELSE w

\* the positions of chain whose node stores key k in its map f
Holders(chain, f, k) ==
    {i \in 1..Len(chain) : k \in DOMAIN maps[errs[chain[i]][f]]}

\* the keys stored by the nodes of chain in their maps f
ChainKeys(chain, f) ==
    UNION {DOMAIN maps[errs[chain[i]][f]] : i \in 1..Len(chain)}

\* the merge of the maps f of chain in which, on a shared key, the innermost
\* holder wins (innermost = TRUE) or the outermost one (innermost = FALSE)
MergedBy(chain, f, innermost) ==
    [k \in ChainKeys(chain, f) |->
        LET hs == Holders(chain, f, k)
            i  == IF innermost THEN CHOOSE a \in hs : \A b \in hs : b <= a
                  ELSE CHOOSE a \in hs : \A b \in hs : a <= b
        IN  ResolvedValue(maps[errs[chain[i]][f]][k])]

\* C2 as stated: on every chain the resolved map is the merge of the nodes'
\* maps in which the outermost node holding a key wins
C2_OuterWins ==
    \A e \in Nodes : \A f \in MapFields :
        ResolveMap(e, f).val = MergedBy(NodeChain(e), f, FALSE)

\* C2: on every chain the resolved map of Context(), User() and Tenant() is
\* the merge of the nodes' maps in which, for a key present on several nodes,
\* the value of the innermost node holding that key wins
C2_InnerWins ==
    \A e \in Nodes : \A f \in MapFields :
        ResolveMap(e, f).val = MergedBy(NodeChain(e), f, TRUE)

\* Context() was called on a node that stores x = 2 and wraps a node that
\* stores x = 1 and y = 2: it returned x = 1, y = 2
C2_Witness ==
    /\ ret.op = "OopsError.Context"
    /\ Len(NodeChain(ret.recv)) = 2
    /\ maps[errs[ret.recv].context] = ("x" :> IntV(2))
    /\ maps[errs[NodeChain(ret.recv)[2]].context] = ("x" :> IntV(1)) @@ ("y" :> IntV(2))
    /\ ret.val = ("x" :> IntV(1)) @@ ("y" :> IntV(2))

----------------------------------------------------------------------------
(* Programs that tag the errors of a chain *)

TagArgs == {<<"a">>, <<"b">>, <<"a", "b">>}

\* statements err = oops.Tags(t...)[.Tags(t...)].Wrap(err) and
\* err = oops.Wrap(err), and calls of err.Tags() in between
NextTags ==
    \/ \E t \in TagArgs : Tags(Chained, t)
    \/ Wrap(Chained, LastErr)
    \/ AtStart /\ IsNode(LastErr) /\ CallTags(LastErr)

SpecTags == Init /\ [][NextTags]_vars

----------------------------------------------------------------------------
(* C3 *)

\* the positions of seq that hold the first occurrence of their value
FirstPositions(seq) ==
    {i \in 1..Len(seq) : \A j \in 1..(i - 1) : seq[j] # seq[i]}

\* seq without the values that occurred before
KeepFirst(seq) ==
    LET ps == FirstPositions(seq) IN
    [n \in 1..Cardinality(ps) |->
        seq[CHOOSE i \in ps : Cardinality({j \in ps : j <= i}) = n]]

\* the tag sequence builder b holds (none for the package-level functions)
BuilderTags(b) == IF b = 0 THEN <<>> ELSE SliceSeq(arrs, bld[b].tags)

\* the tag sequence node e stores
NodeTags(e) == SliceSeq(arrs, errs[e].tags)

\* Tags(t...) yields the receiver's tags followed by t as given, and a node
\* is sealed with the tags of its builder as they are
TagsAppended ==
    /\ ret'.op = "Tags" =>
           SliceSeq(arrs', bld'[ret'.val].tags) = BuilderTags(ret'.recv) \o ret'.arg
    /\ (ret'.op = "Wrap" /\ ret'.val # 0) =>
           SliceSeq(arrs', errs'[ret'.val].tags) = BuilderTags(ret'.recv)

\* Tags() of a node is the tags of its chain from the outermost to the
\* innermost node, each tag at its first occurrence only
TagsViewDeduplicated ==
    \A e \in Nodes : OopsError_Tags(e) = KeepFirst(ConcatTags(NodeChain(e)))

\* C3: a node keeps the tag sequence appended to its builder, duplicates
\* included, and Tags() on the outermost node returns the concatenation of
\* the tags of the nodes from outermost to innermost with duplicates removed,
\* the first occurrence of each tag kept
C3_TagsUnionDedup == []TagsViewDeduplicated /\ [][TagsAppended]_vars

\* err.Tags() was called on a node that stores a, b, a and wraps a node that
\* stores b, a, b: it returned a, b
C3_Witness ==
    /\ ret.op = "OopsError.Tags"
    /\ Len(NodeChain(ret.recv)) = 2
    /\ NodeTags(ret.recv) = <<"a", "b", "a">>
    /\ NodeTags(NodeChain(ret.recv)[2]) = <<"b", "a", "b">>
    /\ ret.val = <<"a", "b">>

----------------------------------------------------------------------------
(* Programs that wrap a nil or non-nil cause with a builder *)

\* messages a format and its arguments format to
Msgs == {<<>>, <<"m">>}

\* the cause handed to a wrapping call: nil or the latest error
Causes == {0, LastErr}

\* the builder a program made and reuses, and the package-level functions
Held == 0..Len(bld)

\* a program that makes one builder b := oops.<Setter>(..) and then runs
\* statements err = b.Wrap(c), b.Wrapf(c, ..), oops.Wrap(c), oops.Wrapf(c, ..),
\* oops.WrapN(.., c) and oops.WrapfN(.., c, ..) with c nil or the latest error
NextNil ==
    \/ Len(bld) = 0 /\ Code(0, "A")
    \/ Len(bld) = 0 /\ Tags(0, <<"a">>)
    \/ Len(bld) = 0 /\ With(0, <<StrV("x"), IntV(1)>>)
    \/ \E r \in Held : \E c \in Causes : Wrap(r, c)
    \/ \E r \in Held : \E c \in Causes : Wrapf(r, c, <<"m">>)
    \/ \E c \in Causes : WrapN(c)
    \/ \E c \in Causes : WrapfN(c, <<"m">>)

SpecNil == Init /\ [][NextNil]_vars

----------------------------------------------------------------------------
(* C4 *)

\* C4: on any builder, and for the package-level helpers, Wrap and Wrapf of a
\* nil cause return nil and create no node
C4_NilWrapIdentity ==
    [][(ret'.op \in {"Wrap", "Wrapf", "WrapN", "WrapfN"} /\ ret'.arg = 0)
          => (ret'.val = 0 /\ errs' = errs /\ maps' = maps)]_vars

\* Wrapf(nil, ..) on a builder whose code was set returned nil after a node
\* had been made
C4_Witness ==
    /\ ret.op = "Wrapf"
    /\ ret.arg = 0
    /\ ret.val = 0
    /\ ret.recv # 0
    /\ bld[ret.recv].code = "A"
    /\ Nodes # {}

----------------------------------------------------------------------------
(* Programs that seal errors with and without a message *)

\* statements err = oops.<Terminal>(..) around the latest error, and struct
\* literals of OopsError without cause
NextMsg ==
    \/ Wrap(0, LastErr)
    \/ \E m \in Msgs : Wrapf(0, LastErr, m)
    \/ New(0, <<"n">>)
    \/ \E w \in Causes : Errorf(0, <<"f">>, w)
    \/ \E m \in Msgs : Literal(m, 0)

SpecMsg == Init /\ [][NextMsg]_vars

----------------------------------------------------------------------------
(* C5 *)

\* the texts of ts joined by ": "
RECURSIVE JoinColon(_)
JoinColon(ts) ==
    IF ts = <<>> THEN <<>>
    ELSE IF Len(ts) = 1 THEN ts[1]
    ELSE ts[1] \o <<": ">> \o JoinColon(Tail(ts))

\* the non-empty messages of the nodes of chain, outermost first
RECURSIVE ChainMsgs(_)
ChainMsgs(chain) ==
    IF chain = <<>> THEN <<>>
    ELSE (IF errs[chain[1]].msg = <<>> THEN <<>> ELSE <<errs[chain[1]].msg>>)
         \o ChainMsgs(Tail(chain))

\* the cause of the innermost node of chain (0: none)
TerminalCause(chain) == errs[chain[Len(chain)]].err

\* C5: Error() of a node with cause c and message m is m: c.Error() when m is
\* not empty, c.Error() when m is empty and m when there is no cause; on a
\* chain that ends in a cause it is the non-empty messages from the outermost
\* to the innermost node, then the text of that cause, joined by ": "
C5_MessageComposition ==
    \A e \in Nodes :
        LET m == errs[e].msg
            c == errs[e].err
            chain == NodeChain(e)
        IN  /\ c # 0 /\ m # <<>> => OopsError_Error(e) = m \o <<": ">> \o OopsError_Error(c)
            /\ c # 0 /\ m = <<>> => OopsError_Error(e) = OopsError_Error(c)
            /\ c = 0 => OopsError_Error(e) = m
            /\ TerminalCause(chain) # 0 =>
                   OopsError_Error(e) =
                       JoinColon(ChainMsgs(chain)
                                 \o <<OopsError_Error(TerminalCause(chain))>>)

\* a node with message m around a node without message around the error e1,
\* rendered as m: e1, and a node without cause whose message is m
C5_Witness ==
    /\ \E e \in Nodes :
           /\ Len(NodeChain(e)) = 2
           /\ errs[e].msg = <<"m">>
           /\ errs[NodeChain(e)[2]].msg = <<>>
           /\ TerminalCause(NodeChain(e)) = 1
           /\ OopsError_Error(e) = <<"m", ": ", "e1">>
    /\ \E e \in Nodes :
           errs[e].err = 0 /\ errs[e].msg = <<"m">> /\ OopsError_Error(e) = <<"m">>

----------------------------------------------------------------------------
(* Programs that derive builders from the builder they hold and seal it *)

\* the calls that seal a builder
TerminalOps == {"Wrap", "Wrapf", "New", "Errorf", "Join", "Recover", "Recoverf"}

\* a program that touches the fields fs of its builders and no other field
OnlyFields(fs) ==
    \A i \in 1..Len(bld) :
        /\ \A g \in (DeepFields \cup {"trace", "span"}) \ fs : bld[i][g] = Default(g)
        /\ "tags" \notin fs => bld[i].tags.len = 0
        /\ \A g \in MapFields \ fs : maps[bld[i][g]] = EmptyMap

\* the receiver of a call: the latest builder, or none (package-level call)
Receivers == {0, LastBld}

\* a context that carries 7 under the key "k" and a recording span
CtxArg == Ctx((StrV("k") :> IntV(7)), "T1", "S1")

\* the payloads a callback can panic with, and no panic
Panics == {NoPanic, PanicErr(1), PanicVal(<<"p">>)}

\* the program has not sealed an error yet
Unsealed == Len(errs) = 1

\* a program that stays with one kind of setter, b2 := b.<Setter>(..) or
\* b2 := oops.<Setter>(..), and ends by sealing, err := b.<Terminal>(..)
NextBuilder ==
    \/ \E r \in Receivers : Unsealed /\ OnlyFields({"code"}) /\ Code(r, "A")
    \/ \E r \in Receivers : Unsealed /\ OnlyFields({"time"}) /\ Time(r, 2)
    \/ \E r \in Receivers : Unsealed /\ OnlyFields({"duration"}) /\ Since(r, 0)
    \/ \E r \in Receivers : Unsealed /\ OnlyFields({"duration"}) /\ Duration(r, 2)
    \/ \E r \in Receivers : Unsealed /\ OnlyFields({"domain"}) /\ In(r, "A")
    \/ \E r \in Receivers : Unsealed /\ OnlyFields({"tags"}) /\ Tags(r, <<"a">>)
    \/ \E r \in Receivers : \E kv \in {<<StrV("x"), IntV(1)>>, <<StrV("y"), IntV(2)>>} :
           Unsealed /\ OnlyFields({"context"}) /\ With(r, kv)
    \/ \E r \in Receivers :
           Unsealed /\ OnlyFields({"context", "trace", "span"}) /\ WithContext(r, CtxArg, <<StrV("k")>>)
    \/ \E r \in Receivers : Unsealed /\ OnlyFields({"trace"}) /\ Trace(r, "A")
    \/ \E r \in Receivers : Unsealed /\ OnlyFields({"span"}) /\ Span(r, "A")
    \/ \E r \in Receivers : Unsealed /\ OnlyFields({"hint"}) /\ Hint(r, "A")
    \/ \E r \in Receivers : Unsealed /\ OnlyFields({"public"}) /\ Public(r, "A")
    \/ \E r \in Receivers : Unsealed /\ OnlyFields({"owner"}) /\ Owner(r, "A")
    \/ \E r \in Receivers :
           Unsealed /\ OnlyFields({"userID", "userData"}) /\ User(r, "A", <<StrV("x"), IntV(1)>>)
    \/ \E r \in Receivers :
           Unsealed /\ OnlyFields({"tenantID", "tenantData"}) /\ Tenant(r, "A", <<StrV("x"), IntV(1)>>)
    \/ \E r \in Receivers : Unsealed /\ OnlyFields({"req"}) /\ Request(r, "GET /foo", TRUE)
    \/ \E r \in Receivers : Unsealed /\ OnlyFields({"res"}) /\ Response(r, "GET /foo", TRUE)
    \/ \E r \in Receivers : Unsealed /\ Wrap(r, 1)
    \/ \E r \in Receivers : Unsealed /\ Wrapf(r, 1, <<"m">>)
    \/ \E r \in Receivers : Unsealed /\ New(r, <<"n">>)
    \/ \E r \in Receivers : Unsealed /\ Errorf(r, <<"f">>, 1)
    \/ \E r \in Receivers : Unsealed /\ Join(r, <<1, 1>>)
    \/ \E r \in Receivers : \E p \in Panics : Unsealed /\ Recover(r, p)
    \/ \E r \in Receivers : \E p \in Panics : Unsealed /\ Recoverf(r, p, <<"m">>)

SpecBuilder == Init /\ [][NextBuilder]_vars

----------------------------------------------------------------------------
(* C6 *)

\* what can be observed of builder b in the heaps bs, as, ms: its scalars, its
\* tag sequence and the entries of its three maps
BuilderView(b, bs, as, ms) ==
    [bs[b] EXCEPT !.tags = SliceSeq(as, bs[b].tags),
                  !.context = ms[bs[b].context],
                  !.userData = ms[bs[b].userData],
                  !.tenantData = ms[bs[b].tenantData]]

\* C6: no setter and no terminal operation changes what can be observed of
\* the builder it is called on
C6_ReceiverUnchanged ==
    [][(ret'.op \in SetterOps \cup TerminalOps /\ ret'.recv # 0)
          => BuilderView(ret'.recv, bld', arrs', maps')
                 = BuilderView(ret'.recv, bld, arrs, maps)]_vars

\* With("y", 2) was called on a builder whose context holds x = 1: the new
\* builder holds x and y, the receiver still holds x alone
C6_Witness ==
    /\ ret.op = "With"
    /\ ret.recv # 0
    /\ maps[bld[ret.recv].context] = ("x" :> IntV(1))
    /\ maps[bld[ret.val].context] = ("x" :> IntV(1)) @@ ("y" :> IntV(2))

----------------------------------------------------------------------------
(* Programs that derive several builders from one builder *)

\* b2 := b.Tags(t...) and b2 := oops.Tags(t...) for any builder b the program
\* holds, and err := b2.Wrap(e1) right after b2 was made
NextShare ==
    \/ \E r \in Held : \E t \in TagArgs : Tags(r, t)
    \/ ret.op = "Tags" /\ Wrap(LastBld, 1)

SpecShare == Init /\ [][NextShare]_vars

----------------------------------------------------------------------------
(* C7 *)

\* C7: a builder derived with Tags holds its receiver's tags followed by the
\* tags given, and no later call changes the tag sequence of a builder or of
\* a node that exists already
C7_DerivedTagsStable ==
    [][/\ ret'.op = "Tags" =>
              SliceSeq(arrs', bld'[ret'.val].tags) = BuilderTags(ret'.recv) \o ret'.arg
       /\ \A b \in 1..Len(bld) :
              SliceSeq(arrs', bld'[b].tags) = SliceSeq(arrs, bld[b].tags)
       /\ \A e \in Nodes :
              SliceSeq(arrs', errs'[e].tags) = SliceSeq(arrs, errs[e].tags)]_vars

----------------------------------------------------------------------------
(* C8 *)

\* the calls that read a map of a node
MapGetterOps == {"OopsError.Context", "OopsError.User", "OopsError.Tenant"}

\* C8: a call of Context(), User() or Tenant() leaves every stored field of
\* every node unchanged, and each stored map holds the same value, lazy
\* function or pointer under each key as before the call
C8_ReadsLeaveNodesUnchanged ==
    [][ret'.op \in MapGetterOps =>
          /\ errs' = errs
          /\ \A e \in Nodes : \A f \in MapFields :
                 maps'[errs[e][f]] = maps[errs[e][f]]]_vars

----------------------------------------------------------------------------
(* Goroutines: calls that run concurrently, one memory access at a time *)

\* the goroutines a program starts
NThreads == 2

Threads == 1..Len(thr)

\* a goroutine about to call op with argument arg on the node or builder on.
\* While the call runs, d is the map or builder it works on, todo the keys
\* its loop has not visited yet, and val what it returned at the end
Ready(op, on, arg) ==
    [pc |-> "ready", op |-> op, on |-> on, arg |-> arg, d |-> 0, todo |-> {},
     val |-> 0]

\* the field read by a map getter
FieldOf(op) ==
    CASE op = "OopsError.Context" -> "context"
      [] op = "OopsError.User"    -> "userData"
      [] op = "OopsError.Tenant"  -> "tenantData"

\* memory accesses: entry k of map object ref, element i of array a
MapEntry(ref, k) == <<"map", ref, k>>
Element(a, i) == <<"arr", a, i>>
Read(loc) == [loc |-> loc, w |-> FALSE]
Write(loc) == [loc |-> loc, w |-> TRUE]

\* reading every entry of a map (range, lo.Assign)
ReadsOfMap(ref) == {Read(MapEntry(ref, k)) : k \in DOMAIN maps[ref]}

RECURSIVE LazyWrites(_, _)
\* the writes of one turn of the loop of lazyMapEvaluation
LazyWrites(ref, k) ==
    LET v == maps[ref][k] IN
    {Write(MapEntry(ref, k))}
        \cup (IF v.k = "map"
              THEN UNION {LazyWrites(v.ref, j) : j \in DOMAIN maps[v.ref]}
              ELSE {})

\* the accesses of one turn of the loop of dereferencePointers
DerefAccesses(ref, k) ==
    {Read(MapEntry(ref, k))}
        \cup (IF maps[ref][k].k = "ptr" THEN {Write(MapEntry(ref, k))} ELSE {})

\* the accesses of append(s, xs...): the elements written in place, or the
\* elements copied into a new array
AppendAccesses(s, xs) ==
    IF Len(xs) = 0 THEN {}
    ELSE IF s.len + Len(xs) <= s.cap
    THEN {Write(Element(s.arr, i)) : i \in (s.len + 1)..(s.len + Len(xs))}
    ELSE {Read(Element(s.arr, i)) : i \in 1..s.len}

\* the accesses of copy(): every entry of the three maps of the receiver
CopyAccesses(b) ==
    ReadsOfMap(bld[b].context) \cup ReadsOfMap(bld[b].userData)
        \cup ReadsOfMap(bld[b].tenantData)

\* the accesses to shared memory goroutine t makes next
Accesses(t) ==
    LET th == thr[t] IN
    CASE th.pc = "ready" /\ th.op \in {"OopsError.Context", "OopsError.User", "OopsError.Tenant"} ->
            IF mergeNestedErrorMap(maps, th.on, FieldOf(th.op)).alias # 0 THEN {}
            ELSE UNION {ReadsOfMap(errs[n][FieldOf(th.op)]) : n \in Range(recursive(th.on))}
      [] th.pc = "ready" /\ th.op = "OopsError.Tags" ->
            UNION {{Read(Element(errs[n].tags.arr, i)) : i \in 1..errs[n].tags.len} :
                      n \in Range(recursive(th.on))}
      [] th.pc = "lazy" -> UNION {LazyWrites(th.d, k) : k \in th.todo}
      [] th.pc = "deref" -> UNION {DerefAccesses(th.d, k) : k \in th.todo}
      [] th.pc = "ready" /\ th.op = "Tags" ->
            CopyAccesses(th.on) \cup AppendAccesses(bld[th.on].tags, th.arg)
      [] th.pc = "ready" /\ th.op = "With" -> CopyAccesses(th.on)
      [] th.pc = "derived" -> CopyAccesses(th.d)
      [] OTHER -> {}

\* goroutines t and u are about to access the same location, one writing it
Conflict(t, u) ==
    \E a \in Accesses(t) : \E b \in Accesses(u) : a.loc = b.loc /\ (a.w \/ b.w)

Race == \E t \in Threads : \E u \in Threads : t # u /\ Conflict(t, u)

----------------------------------------------------------------------------
(* Programs whose goroutines read one node *)

ReadOps == {"OopsError.Context", "OopsError.User", "OopsError.Tags", "OopsError.Code"}

ReadKv ==
    {<<StrV("x"), LazyV(IntV(3))>>, <<StrV("y"), PtrV(IntV(4))>>,
     <<StrV("x"), IntV(1), StrV("y"), IntV(2)>>}

\* go func() { err.<Getter>() }(), once per goroutine, on the latest error
SpawnReaders ==
    /\ Len(thr) = 0
    /\ AtStart
    /\ IsNode(LastErr)
    /\ \E ops \in [1..NThreads -> ReadOps] :
           thr' = [t \in 1..NThreads |-> Ready(ops[t], LastErr, 0)]
    /\ UNCHANGED <<arrs, maps, bld, errs, ret, cfg>>

\* the call starts: a map getter merges the maps of the chain (a leaf node
\* hands out its own map), Tags() and Code() read and return
Begin(t) ==
    LET th == thr[t] IN
    /\ th.pc = "ready"
    /\ th.op \in ReadOps
    /\ IF th.op \in {"OopsError.Context", "OopsError.User", "OopsError.Tenant"}
       THEN LET mg == mergeNestedErrorMap(maps, th.on, FieldOf(th.op))
                d  == IF mg.alias = 0 THEN Len(maps) + 1 ELSE mg.alias
            IN  /\ maps' = IF mg.alias = 0 THEN Append(maps, mg.m) ELSE maps
                /\ thr' = [thr EXCEPT ![t] =
                              IF DOMAIN mg.m = {}
                              THEN [@ EXCEPT !.pc = "done", !.d = d, !.val = mg.m]
                              ELSE [@ EXCEPT !.pc = "lazy", !.d = d, !.todo = DOMAIN mg.m]]
       ELSE /\ maps' = maps
            /\ thr' = [thr EXCEPT ![t] =
                          [@ EXCEPT !.pc = "done",
                                    !.val = IF th.op = "OopsError.Tags"
                                            THEN OopsError_Tags(th.on)
                                            ELSE OopsError_Code(th.on)]]
    /\ UNCHANGED <<arrs, bld, errs, ret, cfg>>

\* one turn of the loop of lazyMapEvaluation, the keys in any order
LazyStep(t, k) ==
    LET th == thr[t]
        ms == lazyMapEvaluationKey(maps, th.d, k)
        left == th.todo \ {k}
    IN  /\ th.pc = "lazy"
        /\ k \in th.todo
        /\ maps' = ms
        /\ thr' = [thr EXCEPT ![t] =
                      IF left # {} THEN [@ EXCEPT !.todo = left]
                      ELSE IF cfg.DereferencePointers
                      THEN [@ EXCEPT !.pc = "deref", !.todo = DOMAIN ms[th.d]]
                      ELSE [@ EXCEPT !.pc = "done", !.todo = {}, !.val = ms[th.d]]]
        /\ UNCHANGED <<arrs, bld, errs, ret, cfg>>

\* one turn of the loop of dereferencePointers, the keys in any order
DerefStep(t, k) ==
    LET th == thr[t]
        ms == [maps EXCEPT ![th.d][k] = dereferencePointersKey(@)]
        left == th.todo \ {k}
    IN  /\ th.pc = "deref"
        /\ k \in th.todo
        /\ maps' = ms
        /\ thr' = [thr EXCEPT ![t] =
                      IF left # {} THEN [@ EXCEPT !.todo = left]
                      ELSE [@ EXCEPT !.pc = "done", !.todo = {}, !.val = ms[th.d]]]
        /\ UNCHANGED <<arrs, bld, errs, ret, cfg>>

\* the runtime finds a map written while another goroutine uses it and ends
\* the process: fatal error: concurrent map writes
Throw ==
    /\ \E t \in Threads : \E u \in Threads :
           /\ t # u
           /\ thr[t].pc \in {"lazy", "deref"}
           /\ Conflict(t, u)
    /\ thr' = [t \in Threads |-> [thr[t] EXCEPT !.pc = "fatal"]]
    /\ UNCHANGED <<arrs, maps, bld, errs, ret, cfg>>

\* a chain is built by err = oops.With(kv...).Wrap(err), then the goroutines
\* read its outermost node
NextRead ==
    \/ \E kv \in ReadKv : Len(thr) = 0 /\ AtStart /\ With(0, kv)
    \/ Len(thr) = 0 /\ Wrap(Chained, LastErr)
    \/ SpawnReaders
    \/ \E t \in Threads : Begin(t)
    \/ \E t \in Threads : \E k \in thr[t].todo : LazyStep(t, k)
    \/ \E t \in Threads : \E k \in thr[t].todo : DerefStep(t, k)
    \/ Throw

SpecRead == Init /\ [][NextRead]_vars

----------------------------------------------------------------------------
(* C9 *)

\* C9: goroutines that call getters on the same sealed node never are about
\* to access the same memory location with one of them writing it
C9_ReadsRaceFree == ~Race

----------------------------------------------------------------------------
(* Programs whose goroutines extend one base builder and seal the result *)

ForkOps == {"Tags", "With"}

\* what goroutine t adds: its own tag, or its own key
ThreadNames == <<"t1", "t2", "t3", "t4">>
ForkArg(op, t) ==
    IF op = "Tags" THEN <<ThreadNames[t]>> ELSE <<StrV(ThreadNames[t]), IntV(t)>>

\* a string of which one goroutine wrote the data pointer and another one the
\* length
Torn == "?"

\* go func() { err := base.<Setter>(..).Wrap(e1) }(), once per goroutine, on
\* the latest builder
SpawnWorkers ==
    /\ Len(thr) = 0
    /\ Len(bld) >= 1
    /\ \E ops \in [1..NThreads -> ForkOps] :
           thr' = [t \in 1..NThreads |-> Ready(ops[t], LastBld, ForkArg(ops[t], t))]
    /\ UNCHANGED <<arrs, maps, bld, errs, ret, cfg>>

\* base.Tags(..) or base.With(..) in goroutine t.  An element that another
\* goroutine is about to write as well ends up written, or torn
Derive(t) ==
    LET th == thr[t]
        n  == IF th.op = "Tags" THEN TagsOn(th.on, th.arg) ELSE WithOn(th.on, th.arg)
        racy == {a.loc[3] : a \in {a \in Accesses(t) :
                     /\ a.w
                     /\ \E u \in Threads \ {t} : \E b \in Accesses(u) :
                            b.w /\ b.loc = a.loc}}
    IN  /\ th.pc = "ready"
        /\ th.op \in ForkOps
        /\ \E torn \in BOOLEAN :
               /\ torn => racy # {}
               /\ arrs' = IF torn
                          THEN [n.arrs EXCEPT ![n.o.tags.arr] =
                                   [i \in DOMAIN @ |-> IF i \in racy THEN Torn ELSE @[i]]]
                          ELSE n.arrs
        /\ maps' = n.maps
        /\ bld' = Append(bld, n.o)
        /\ thr' = [thr EXCEPT ![t] = [@ EXCEPT !.pc = "derived", !.d = Len(bld) + 1]]
        /\ UNCHANGED <<errs, ret, cfg>>

\* .Wrap(e1) on the builder goroutine t derived
Seal(t) ==
    LET th == thr[t]
        w  == WrapOn(th.d, errs, maps, 1)
    IN  /\ th.pc = "derived"
        /\ errs' = w.es
        /\ maps' = w.maps
        /\ thr' = [thr EXCEPT ![t] = [@ EXCEPT !.pc = "done", !.val = w.val]]
        /\ UNCHANGED <<arrs, bld, ret, cfg>>

\* the base is built by base := oops.<Setter>(..).<Setter>(..), then the
\* goroutines extend and seal it
NextFork ==
    \/ \E tags \in TagArgs : Len(thr) = 0 /\ Tags(LastBld, tags)
    \/ Len(thr) = 0 /\ With(LastBld, <<StrV("x"), IntV(1)>>)
    \/ SpawnWorkers
    \/ \E t \in Threads : Derive(t)
    \/ \E t \in Threads : Seal(t)

SpecFork == Init /\ [][NextFork]_vars

----------------------------------------------------------------------------
(* C10 *)

\* the node goroutine t sealed carries the tags and the context of the base
\* builder and what t added, nothing else
OwnAdditionsOnly(t) ==
    LET th == thr[t] IN
    /\ NodeTags(th.val) = BuilderTags(th.on) \o (IF th.op = "Tags" THEN th.arg ELSE <<>>)
    /\ maps[errs[th.val].context] =
           IF th.op = "With" THEN WithPairs(maps[bld[th.on].context], th.arg, 0)
           ELSE maps[bld[th.on].context]

\* C10: goroutines that extend the same base builder and seal the result
\* never are about to access the same memory location with one of them
\* writing it, and the node of each carries the base attributes and its own
\* additions
C10_SharedBaseIsolation ==
    /\ ~Race
    /\ \A t \in Threads :
           (thr[t].pc = "done" /\ thr[t].op \in ForkOps) => OwnAdditionsOnly(t)

----------------------------------------------------------------------------
(* Programs that tag the errors of a chain and ask for a tag *)

TagNames == {"a", "b", "c"}

\* statements err = oops.Tags(t...).Wrap(err) and err = oops.Wrap(err), and
\* calls of err.HasTag(tag) in between
NextHasTag ==
    \/ \E t \in TagArgs : AtStart /\ Tags(0, t)
    \/ Wrap(Chained, LastErr)
    \/ \E tag \in TagNames : AtStart /\ IsNode(LastErr) /\ CallHasTag(LastErr, tag)

SpecHasTag == Init /\ [][NextHasTag]_vars

----------------------------------------------------------------------------
(* C11 *)

\* the positions of chain whose node stores tag
Tagged(chain, tag) == {i \in 1..Len(chain) : tag \in Range(NodeTags(chain[i]))}

\* chain up to and including its first node that stores tag, the whole
\* chain when none does
UpToFirstTagged(chain, tag) ==
    LET at == Tagged(chain, tag) IN
    IF at = {} THEN chain
    ELSE SubSeq(chain, 1, CHOOSE i \in at : \A j \in at : i <= j)

\* C11: HasTag(t) on a node is true exactly when some node of its chain
\* stores t, which is exactly when t is an element of Tags(); the walk
\* visits the chain up to the first node that stores t and no further, and
\* goes past the nodes that do not store it
C11_HasTagChainWide ==
    \A e \in Nodes : \A tag \in TagNames :
        /\ OopsError_HasTag(e, tag) <=> Tagged(NodeChain(e), tag) # {}
        /\ OopsError_HasTag(e, tag) <=> tag \in Range(OopsError_Tags(e))
        /\ HasTagTaps(e, tag) = UpToFirstTagged(NodeChain(e), tag)

\* err.HasTag("b") was called on a chain of three nodes of which only the
\* innermost stores b: it returned true
C11_Witness ==
    /\ ret.op = "OopsError.HasTag"
    /\ ret.arg = "b"
    /\ Len(NodeChain(ret.recv)) = 3
    /\ Tagged(NodeChain(ret.recv), "b") = {3}
    /\ ret.val = TRUE

----------------------------------------------------------------------------
(* Programs that give spans and codes to the errors of a chain *)

\* statements err = oops.Span(v)[.Code(w)].Wrap(err), err = oops.Code(w).Wrap(err)
\* and err = oops.Wrap(err), and calls of err.Span() in between
NextSpan ==
    \/ \E v \in StrVals : AtStart /\ Span(0, v)
    \/ \E w \in StrVals : ret.op # "Code" /\ Code(Chained, w)
    \/ Wrap(Chained, LastErr)
    \/ AtStart /\ IsNode(LastErr) /\ CallSpan(LastErr)

SpecSpan == Init /\ [][NextSpan]_vars

----------------------------------------------------------------------------
(* C12 *)

\* the span of the builder a terminal is called on (none for the
\* package-level functions)
BuilderSpan(b) == IF b = 0 THEN "" ELSE bld[b].span

\* a node is sealed with the span of its builder, or with a new identifier
\* when the builder has none, whatever the span of its cause
SpanSealed ==
    (ret'.op = "Wrap" /\ ret'.val # 0) =>
        errs'[ret'.val].span =
            IF BuilderSpan(ret'.recv) = "" THEN ulidMake(errs) ELSE BuilderSpan(ret'.recv)

\* Span() is the span the node was sealed with
SpanIsOwn ==
    /\ \A e \in Nodes : OopsError_Span(e) = errs[e].span /\ errs[e].span # ""
    /\ ret.op = "OopsError.Span" => ret.val = errs[ret.recv].span

\* C12: Span() on a node returns the span that node was sealed with and
\* never the span of a nested cause, though every nested node has a span of
\* its own
C12_SpanIsLocal == []SpanIsOwn /\ [][SpanSealed]_vars

\* err.Span() was called on a node sealed with span A and code A over a node
\* sealed with span B and code B: it returned A, while Code() resolves to B
C12_Witness ==
    /\ ret.op = "OopsError.Span"
    /\ Len(NodeChain(ret.recv)) = 2
    /\ errs[ret.recv].span = "A" /\ errs[ret.recv].code = "A"
    /\ errs[NodeChain(ret.recv)[2]].span = "B"
    /\ errs[NodeChain(ret.recv)[2]].code = "B"
    /\ ret.val = "A"
    /\ OopsError_Code(ret.recv) = "B"

----------------------------------------------------------------------------
(* Programs whose chains go through errors of other packages *)

\* err = fmt.Errorf("w: %w", err): a wrapper of another package
FmtErrorf(text, w) ==
    /\ Len(errs) < MaxLongChain
    /\ errs' = Append(errs, Wrapper(text, w))
    /\ ret' = [op |-> "fmt.Errorf", recv |-> 0, arg |-> w, val |-> Len(errs) + 1]
    /\ UNCHANGED <<arrs, maps, bld, thr, cfg>>

\* Wrap in a program of up to MaxLongChain errors
WrapLong(r, err) ==
    LET w == WrapOn(r, errs, maps, err) IN
    /\ Len(w.es) <= MaxLongChain
    /\ errs' = w.es
    /\ maps' = w.maps
    /\ ret' = [op |-> "Wrap", recv |-> r, arg |-> err, val |-> w.val]
    /\ UNCHANGED <<arrs, bld, thr, cfg>>

ForeignKv == {<<StrV("x"), IntV(1)>>, <<StrV("x"), IntV(2)>>, <<StrV("y"), IntV(2)>>}

\* statements err = oops.<Setter>(v).Wrap(err), err = oops.Wrap(err) and
\* err = fmt.Errorf("w: %w", err), one kind of setter per program, and calls
\* of err.Context(), err.Tags() and err.HasTag(tag) in between
\* Join on a chain of up to MaxLongChain errors
JoinLong(r, es) ==
    LET h == Append(errs, Joined(NonNil(es)))
        w == WrapOn(r, h, maps, Len(h))
    IN  /\ NonNil(es) # <<>>
        /\ Len(w.es) <= MaxLongChain
        /\ errs' = w.es
        /\ maps' = w.maps
        /\ ret' = [op |-> "Join", recv |-> r, arg |-> es, val |-> w.val]
        /\ UNCHANGED <<arrs, bld, thr, cfg>>

NextForeign ==
    \/ \E v \in StrVals : AtStart /\ OnlyFields({"code"}) /\ Code(0, v)
    \/ \E t \in {<<"a">>, <<"b">>} : AtStart /\ OnlyFields({"tags"}) /\ Tags(0, t)
    \/ \E kv \in ForeignKv : AtStart /\ OnlyFields({"context"}) /\ With(0, kv)
    \/ WrapLong(Chained, LastErr)
    \/ AtStart /\ FmtErrorf(<<"w">>, LastErr)
    \/ AtStart /\ IsNode(LastErr) /\ OopsError_Context(LastErr)
    \/ AtStart /\ IsNode(LastErr) /\ CallTags(LastErr)
    \/ \E tag \in TagNames : AtStart /\ IsNode(LastErr) /\ CallHasTag(LastErr, tag)

SpecForeign == Init /\ [][NextForeign]_vars

----------------------------------------------------------------------------
(* C13 *)

RECURSIVE NodeBelow(_)
\* the node found by unwrapping x zero or more times; 0 when x is nil or
\* unwrapping ends at an error that is no node
NodeBelow(x) ==
    IF x = 0 THEN 0
    ELSE IF errs[x].kind = "oops" THEN x
    ELSE IF errs[x].kind = "wrapper" THEN NodeBelow(errs[x].err)
    ELSE 0

RECURSIVE NodesThrough(_)
\* node e followed by the nodes below it, the errors of other packages
\* between them left out: the chain e would have if every node wrapped the
\* next one directly
NodesThrough(e) ==
    IF NodeBelow(errs[e].err) = 0 THEN <<e>>
    ELSE <<e>> \o NodesThrough(NodeBelow(errs[e].err))

\* C13: a node whose cause is an error of another package that wraps,
\* through any number of Unwrap levels, an inner node is queried as if it
\* wrapped the inner node directly: Code() and the other deepest-first
\* getters, Tags(), HasTag() and Context() are those of the chain of nodes
\* with the foreign errors left out, and a cause with no node below it ends
\* the walk
C13_ForeignWrappersSkipped ==
    \A e \in Nodes :
        LET chain == NodesThrough(e) IN
        /\ recursive(e) = chain
        /\ \A f \in DeepFields : getDeepestErrorAttribute(e, f) = InnermostSet(chain, f)
        /\ OopsError_Tags(e) = KeepFirst(ConcatTags(chain))
        /\ \A tag \in TagNames : OopsError_HasTag(e, tag) <=> Tagged(chain, tag) # {}
        /\ \A f \in MapFields : ResolveMap(e, f).val = MergedBy(chain, f, TRUE)

\* Context() was called on a node that stores y = 2 and wraps a foreign
\* error that wraps a foreign error that wraps a node storing x = 1: it
\* returned x = 1, y = 2
C13_Witness ==
    /\ ret.op = "OopsError.Context"
    /\ maps[errs[ret.recv].context] = ("y" :> IntV(2))
    /\ errs[errs[ret.recv].err].kind = "wrapper"
    /\ errs[errs[errs[ret.recv].err].err].kind = "wrapper"
    /\ Len(NodesThrough(ret.recv)) = 2
    /\ maps[errs[NodesThrough(ret.recv)[2]].context] = ("x" :> IntV(1))
    /\ ret.val = ("x" :> IntV(1)) @@ ("y" :> IntV(2))

----------------------------------------------------------------------------
(* Programs that store pointers in the context *)

RECURSIVE PtrChain(_, _)
\* n pointers, each to the next, the last one to end; with end = NilV the
\* last pointer is a nil pointer
PtrChain(n, end) == IF n = 0 THEN end ELSE PtrV(PtrChain(n - 1, end))

\* the values stored: pointer chains that end in a value, pointer chains
\* that end in a nil pointer, values that are no pointers, untyped nil
DerefVals ==
    {PtrChain(n, IntV(7)) : n \in 1..MaxHops}
        \cup {PtrChain(n, NilV) : n \in 1..4}
        \cup {IntV(7), StrV("s"), NilV}

\* oops.DereferencePointers = b
SetDereferencePointers(b) ==
    /\ cfg' = [cfg EXCEPT !.DereferencePointers = b]
    /\ ret' = [op |-> "DereferencePointers", recv |-> 0, arg |-> b, val |-> 0]
    /\ UNCHANGED <<arrs, maps, bld, errs, thr>>

\* one statement err = oops.With("p", v).Wrap(err), statements
\* err = oops.Wrap(err), the toggle set between statements, and calls of
\* err.Context() in between
NextDeref ==
    \/ \E v \in DerefVals : Len(bld) = 0 /\ With(0, <<StrV("p"), v>>)
    \/ Wrap(Chained, LastErr)
    \/ \E b \in BOOLEAN : AtStart /\ cfg.DereferencePointers # b /\ SetDereferencePointers(b)
    \/ AtStart /\ IsNode(LastErr) /\ OopsError_Context(LastErr)

SpecDeref == Init /\ [][NextDeref]_vars

RECURSIVE Hops(_)
\* the pointers of v that point to something
Hops(v) == IF v.k = "ptr" /\ v.to # NilV THEN 1 + Hops(v.to) ELSE 0

RECURSIVE PointsTo(_)
\* what the last pointer of v points to; v itself when v is no pointer
PointsTo(v) == IF v.k = "ptr" /\ v.to # NilV THEN PointsTo(v.to) ELSE v

\* the last pointer of v is nil
EndsInNil(v) == PointsTo(v).k = "ptr"

\* the value stored under key k by the innermost node of chain that holds k
StoredIn(chain, k) ==
    LET hs == Holders(chain, "context", k)
    IN  maps[errs[chain[CHOOSE a \in hs : \A b \in hs : b <= a]].context][k]

\* a step is a call of Context() on a chain that stores a value under "p"
ContextCalled ==
    /\ ret'.op = "OopsError.Context"
    /\ Holders(NodeChain(ret'.recv), "context", "p") # {}

\* the value the chain stores under "p" when Context() is called, and the
\* value Context() returns under "p"
StoredP == StoredIn(NodeChain(ret'.recv), "p")
ReturnedP == ret'.val["p"]

----------------------------------------------------------------------------
(* C14 *)

\* C14: with dereferencing on, a stored chain of n pointers that ends in a
\* value which is no pointer resolves to that value when n is at most 10 and
\* to the stored pointer itself when n is 11 or more
C14_DepthCap ==
    [][(ContextCalled /\ cfg.DereferencePointers
            /\ Hops(StoredP) >= 1 /\ ~EndsInNil(StoredP)) =>
          ReturnedP = IF Hops(StoredP) <= MaxDerefDepth THEN PointsTo(StoredP)
                      ELSE StoredP]_vars

----------------------------------------------------------------------------
(* C15 *)

\* what a stored value resolves to: itself with the toggle off or when it is
\* no pointer, nil when a pointer of its chain is nil, else the value its
\* last pointer points to
Dereferenced(v) ==
    IF ~cfg.DereferencePointers \/ v.k # "ptr" THEN v
    ELSE IF EndsInNil(v) THEN NilV
    ELSE PointsTo(v)

\* C15: Context() returns a stored top-level value as follows.  With
\* dereferencing on, a pointer chain (of at most 10 hops) resolves to nil
\* when one of its pointers is nil and else to the innermost value, and a
\* value that is no pointer is returned unchanged; with the toggle off every
\* value, pointers included, is returned as stored
C15_PointerResolution ==
    [][(ContextCalled /\ Hops(StoredP) <= MaxDerefDepth) =>
          ReturnedP = Dereferenced(StoredP)]_vars

\* Context() was called on a node over a node that stores a pointer to a
\* pointer to a nil pointer: it returned nil
C15_Witness ==
    /\ ret.op = "OopsError.Context"
    /\ cfg.DereferencePointers
    /\ Len(NodeChain(ret.recv)) = 2
    /\ maps[errs[NodeChain(ret.recv)[2]].context] = ("p" :> PtrChain(3, NilV))
    /\ ret.val = ("p" :> NilV)

----------------------------------------------------------------------------
(* Programs that store functions in the context, user data or tenant data *)

\* before the first call the program holds two maps of its own:
\* inner = {"w": func() any { return 6 }, "g": func(int) int {..}} and
\* outer = {"z": func() any { return 5 }, "n": inner}
InitLazy ==
    /\ arrs = <<>>
    /\ maps = <<("w" :> LazyV(IntV(6))) @@ ("g" :> FuncV(1, 1, IntV(8))),
                ("z" :> LazyV(IntV(5))) @@ ("n" :> MapV(1))>>
    /\ bld = <<>>
    /\ errs = <<Plain(<<"e1">>)>>
    /\ ret = [op |-> "init", recv |-> 0, arg |-> 0, val |-> 0]
    /\ thr = <<>>
    /\ cfg = [DereferencePointers |-> TRUE]

\* the values stored: functions of several signatures, values that are no
\* functions, a map that holds a function and a map
LazyVals ==
    {LazyV(IntV(3)), LazyV(LazyV(IntV(4))), FuncV(1, 1, IntV(8)),
     FuncV(0, 2, IntV(8)), FuncV(0, 0, NilV), IntV(1), StrV("s"), NilV, MapV(2)}

\* one statement err = oops.With("p", v).Wrap(err) (or User, or Tenant),
\* statements err = oops.Wrap(err), and calls of err.Context(), err.User()
\* and err.Tenant() in between
NextLazy ==
    \/ \E v \in LazyVals : Len(bld) = 0 /\ With(0, <<StrV("p"), v>>)
    \/ \E v \in LazyVals : Len(bld) = 0 /\ User(0, "A", <<StrV("p"), v>>)
    \/ \E v \in LazyVals : Len(bld) = 0 /\ Tenant(0, "A", <<StrV("p"), v>>)
    \/ Wrap(Chained, LastErr)
    \/ AtStart /\ IsNode(LastErr) /\ OopsError_Context(LastErr)
    \/ AtStart /\ IsNode(LastErr) /\ OopsError_User(LastErr)
    \/ AtStart /\ IsNode(LastErr) /\ OopsError_Tenant(LastErr)

SpecLazy == InitLazy /\ [][NextLazy]_vars

----------------------------------------------------------------------------
(* C16 *)

\* the map field a getter resolves
GetterField ==
    ("OopsError.Context" :> "context") @@ ("OopsError.User" :> "userData")
        @@ ("OopsError.Tenant" :> "tenantData")

\* a step is a call of Context(), User() or Tenant() on a chain that stores
\* a value under "p" in the map the getter resolves
LazyCalled ==
    /\ ret'.op \in DOMAIN GetterField
    /\ Holders(NodeChain(ret'.recv), GetterField[ret'.op], "p") # {}

\* the value the chain stores under "p" when the getter is called, and the
\* value the getter returns under "p"
StoredLazy ==
    LET f     == GetterField[ret'.op]
        chain == NodeChain(ret'.recv)
        hs    == Holders(chain, f, "p")
    IN  maps[errs[chain[CHOOSE a \in hs : \A b \in hs : b <= a]][f]]["p"]

ReturnedLazy ==
    IF ret'.op = "OopsError.Context" THEN ret'.val["p"] ELSE ret'.val[2]["p"]

\* what a value is replaced by: the result of the call for a function with
\* no parameter and one result, the value itself otherwise
Evaluated(v) == IF v.k = "func" /\ v.nin = 0 /\ v.nout = 1 THEN v.out ELSE v

RECURSIVE NestedEvaluated(_)
\* after the step, every entry of the map at ref that is no map is replaced
\* as above, and so is every entry of the maps nested in it
NestedEvaluated(ref) ==
    \A k \in DOMAIN maps[ref] :
        LET x == maps[ref][k] IN
        IF x.k = "map" THEN maps'[ref][k] = x /\ NestedEvaluated(x.ref)
        ELSE maps'[ref][k] = Evaluated(x)

\* C16: when Context(), User() or Tenant() resolves its map, a stored
\* function with no parameter and exactly one result is replaced by the
\* result of calling it, at the top level and inside nested string-keyed
\* maps at any depth; a function with parameters or with another number of
\* results, and a value that is no function, is returned as stored
C16_LazyEvaluation ==
    [][LazyCalled =>
          IF StoredLazy.k = "map"
          THEN ReturnedLazy = StoredLazy /\ NestedEvaluated(StoredLazy.ref)
          ELSE ReturnedLazy = Evaluated(StoredLazy)]_vars

\* Context() was called on a node over a node that stores the map outer,
\* after which outer holds z = 5 and inner holds w = 6 and still the
\* function g
C16_Witness ==
    /\ ret.op = "OopsError.Context"
    /\ Len(NodeChain(ret.recv)) = 2
    /\ maps[errs[NodeChain(ret.recv)[2]].context] = ("p" :> MapV(2))
    /\ ret.val = ("p" :> MapV(2))
    /\ maps[2] = ("z" :> IntV(5)) @@ ("n" :> MapV(1))
    /\ maps[1] = ("w" :> IntV(6)) @@ ("g" :> FuncV(1, 1, IntV(8)))

----------------------------------------------------------------------------
(* Programs that assert *)

AssertOps == {"Assert", "Assertf"}

\* the last call was an assertion that held: its builder can be used on
AssertHeld == ret.op \in AssertOps /\ ret.arg[1]

\* statements oops[.<Setter>(v)].Assert(c)[.Wrap(err)] and the same with
\* Assertf(c, "x %d", 42); a panic is recovered by the caller, which goes on
\* with the next statement
NextAssert ==
    \/ \E v \in StrVals : AtStart /\ ~AssertHeld /\ Code(0, v)
    \/ \E t \in {<<"a">>, <<"a", "b">>} : AtStart /\ ~AssertHeld /\ Tags(0, t)
    \/ \E kv \in ForeignKv : AtStart /\ ~AssertHeld /\ With(0, kv)
    \/ \E c \in BOOLEAN : ~AssertHeld /\ AssertThat(Chained, c)
    \/ \E c \in BOOLEAN : ~AssertHeld /\ Assertf(Chained, c, <<"x ", "42">>)
    \/ AssertHeld /\ Wrap(LastBld, LastErr)

SpecAssert == Init /\ [][NextAssert]_vars

----------------------------------------------------------------------------
(* C17 *)

\* the attributes a builder accumulates
AttrFields == DeepFields \cup {"trace"}

\* the attributes of the record o (a builder or a node) in the heaps as, ms:
\* its scalars, its tag sequence and the entries of its three maps
Attributes(o, as, ms) ==
    [f \in AttrFields |-> o[f]]
        @@ [tags |-> SliceSeq(as, o.tags), context |-> ms[o.context],
            userData |-> ms[o.userData], tenantData |-> ms[o.tenantData]]

\* a failed assertion panics with a new node which carries the attributes of
\* the receiver
PanicsWithNode ==
    /\ ret'.val = PanicErr(Len(errs'))
    /\ Len(errs') = Len(errs) + 2
    /\ errs'[Len(errs')].kind = "oops"
    /\ Attributes(errs'[Len(errs')], arrs', maps')
           = Attributes(RecvOn(ret'.recv, maps).o, arrs, RecvOn(ret'.recv, maps).maps)
    /\ bld' = bld

\* an assertion that holds makes no error and returns the receiver
ReturnsReceiver ==
    /\ errs' = errs
    /\ ret'.val \in 1..Len(bld')
    /\ bld'[ret'.val] = RecvOn(ret'.recv, maps).o
    /\ Attributes(bld'[ret'.val], arrs', maps')
           = Attributes(RecvOn(ret'.recv, maps).o, arrs, RecvOn(ret'.recv, maps).maps)

\* every call of Assert or Assertf behaves as above
AssertStep ==
    (ret'.op \in AssertOps) => IF ret'.arg[1] THEN ReturnsReceiver ELSE PanicsWithNode

\* Error() of the payload of a failed Assert is "assertion failed", and of a
\* failed Assertf the formatted message
PayloadText ==
    (ret.op \in AssertOps /\ ~ret.arg[1]) =>
        OopsError_Error(ret.val.e) =
            IF ret.op = "Assert" THEN <<"assertion failed">> ELSE ret.arg[2]

\* C17: Assert(false) panics with a sealed node whose Error() is exactly
\* "assertion failed", Assertf(false, format, args...) with one whose Error()
\* is the formatted message, and the payload carries the attributes of the
\* builder; Assert(true) and Assertf(true, ...) do not panic and return a
\* builder equal to the receiver
C17_Assertions == []PayloadText /\ [][AssertStep]_vars

\* oops.Code("A").Assert(false) panicked with a node that carries code A and
\* whose Error() is "assertion failed"
C17_Witness ==
    /\ ret.op = "Assert"
    /\ ret.recv # 0
    /\ ret.arg[1] = FALSE
    /\ bld[ret.recv].code = "A"
    /\ errs[ret.val.e].code = "A"
    /\ OopsError_Error(ret.val.e) = <<"assertion failed">>

----------------------------------------------------------------------------
(* Programs that recover from panics *)

\* how the callback ends: it returns, or it panics with the latest error,
\* with a value that is no error, or with nil
Payloads == {NoPanic, PanicErr(LastErr), PanicVal(<<"v">>), PanicNil}

\* b := oops.Code("A") once, then statements err = b.Recover(cb),
\* err = oops.Recover(cb) and the same with Recoverf(cb, format, args...)
NextRecover ==
    \/ Len(bld) = 0 /\ Code(0, "A")
    \/ \E r \in Held : \E p \in Payloads : Recover(r, p)
    \/ \E r \in Held : \E p \in Payloads : \E m \in Msgs : Recoverf(r, p, m)

SpecRecover == Init /\ [][NextRecover]_vars

----------------------------------------------------------------------------
(* C18 *)

\* the text of the error recovered from payload p
RecoveredText(p) ==
    CASE p.k = "err" -> OopsError_Error(p.e)
      [] p.k = "val" -> p.text
      [] p.k = "nil" -> PanicNilErrorText

\* Recover returns nil exactly when the callback does not panic, and else a
\* new node; Recoverf returns nil exactly when the callback does not panic
RecoverStep ==
    /\ (ret'.op \in {"Recover", "Recoverf"}) =>
           /\ ret'.val = 0 <=> ret'.arg = NoPanic
           /\ ret'.val # 0 => (ret'.val = Len(errs') /\ ret'.val > Len(errs))
    /\ (ret'.op = "Recover" /\ ret'.arg = NoPanic) => errs' = errs

\* the node returned by Recover has the error of the payload as its cause,
\* or a new error with the text of the payload; the error returned by
\* Recoverf reads as the formatted message, ": ", the recovered error's text
RecoveredCause ==
    /\ (ret.op = "Recover" /\ ret.val # 0) =>
           /\ errs[ret.val].kind = "oops"
           /\ ret.arg.k = "err" => errs[ret.val].err = ret.arg.e
           /\ ret.arg.k = "val" => errs[errs[ret.val].err] = Plain(ret.arg.text)
    /\ (ret.op = "Recoverf" /\ ret.val # 0 /\ errs[ret.val].msg # <<>>) =>
           OopsError_Error(ret.val)
               = errs[ret.val].msg \o <<": ">> \o RecoveredText(ret.arg)

----------------------------------------------------------------------------
(* C19 *)

\* C19: when the callback of Recover panics with a nil payload, Recover
\* returns an error that is not nil and whose message is not empty
C19_NilPanicNotSwallowed ==
    (ret.op = "Recover" /\ ret.arg = PanicNil) =>
        (ret.val # 0 /\ OopsError_Error(ret.val) # <<>>)

\* Recover was called with a callback that panics with nil and returned a
\* node over the runtime's error
C19_Witness ==
    /\ ret.op = "Recover"
    /\ ret.arg = PanicNil
    /\ ret.val # 0
    /\ errs[errs[ret.val].err] = Plain(PanicNilErrorText)

----------------------------------------------------------------------------
(* Programs that wrap an error in every way *)

\* b := oops.Code("A") once, then statements err = b.<Terminal>(.. c ..) and
\* err = oops.<Terminal>(.. c ..) over c, the first or the latest error
NextIs ==
    \/ Len(bld) = 0 /\ Code(0, "A")
    \/ \E r \in Held : \E c \in {1, LastErr} : Wrap(r, c)
    \/ \E r \in Held : \E c \in {1, LastErr} : Wrapf(r, c, <<"m">>)
    \/ \E r \in Held : \E c \in {1, LastErr} : Errorf(r, <<"f">>, c)
    \/ \E r \in Held : \E es \in {<<1, LastErr>>, <<LastErr, 1>>} : Join(r, es)
    \/ \E r \in Held : \E c \in {1, LastErr} : Recover(r, PanicErr(c))
    \/ \E r \in Held : \E c \in {1, LastErr} : Recoverf(r, PanicErr(c), <<"m">>)

SpecIs == Init /\ [][NextIs]_vars

----------------------------------------------------------------------------
(* C20 *)

RECURSIVE Below(_)
\* the errors reached from e by Unwrap, e left out
Below(e) ==
    CASE errs[e].kind \in {"oops", "wrapper"} ->
             IF errs[e].err = 0 THEN {} ELSE {errs[e].err} \cup Below(errs[e].err)
      [] errs[e].kind = "join" ->
             Range(errs[e].errs) \cup UNION {Below(x) : x \in Range(errs[e].errs)}
      [] OTHER -> {}

ErrorTypes == {"plain", "wrapper", "join", "oops"}

\* the part of C20 that holds: a cause that is no node is matched from every
\* node above it
ComparableCausesMatch ==
    \A e \in Nodes : \A c \in Below(e) : Comparable(c) => errorsIs(e, c)

\* C20: for every node made by Wrap, Wrapf, Errorf with %w, Join, Recover or
\* Recoverf over an error c, at any number of node-over-node levels,
\* errors.Is(node, c) is true, and errors.As finds in the node an error of
\* every type that the chain of c holds
C20_ChainMembership ==
    \A e \in Nodes : \A c \in Below(e) :
        /\ errorsIs(e, c)
        /\ \A t \in ErrorTypes : errorsAs(c, t) # 0 => errorsAs(e, t) # 0

----------------------------------------------------------------------------
(* C21 *)

\* C21: a sealed node matches any sealed node under errors.Is: every node
\* matches itself, and any two nodes match each other even when the second
\* is not in the cause chain of the first
C21_NodesMatchNodes ==
    \A n \in Nodes : \A m \in Nodes : errorsIs(n, m)

(* map and log export *)

\* the pairs given to User and Tenant
IdKv == {<<>>, <<StrV("k"), IntV(1)>>, <<StrV("id"), IntV(5)>>}

\* the calls that read a trace
Exports ==
    {"OopsError.ToMap", "OopsError.LogValue", "OopsError.Format", "OopsError.Trace"}

\* programs that keep one builder with one attribute, wrap with it or with
\* the package-level functions, export the latest node once and call Trace()
\* on it any number of times
NextExport ==
    \/ Len(bld) = 0 /\ Code(0, "A")
    \/ Len(bld) = 0 /\ Duration(0, 3)
    \/ Len(bld) = 0 /\ In(0, "A")
    \/ Len(bld) = 0 /\ Tags(0, <<"t">>)
    \/ Len(bld) = 0 /\ With(0, <<StrV("x"), LazyV(IntV(3))>>)
    \/ Len(bld) = 0 /\ Trace(0, "T1")
    \/ Len(bld) = 0 /\ Hint(0, "A")
    \/ Len(bld) = 0 /\ Public(0, "A")
    \/ Len(bld) = 0 /\ Owner(0, "A")
    \/ Len(bld) = 0 /\ \E id \in {"", "A"} : \E kv \in IdKv : User(0, id, kv)
    \/ Len(bld) = 0 /\ \E id \in {"", "A"} : Tenant(0, id, <<StrV("k"), IntV(1)>>)
    \/ Len(bld) = 0 /\ \E q \in {"GET /foo", BrokenBody} :
                           \E b \in BOOLEAN : Request(0, q, b)
    \/ Len(bld) = 0 /\ \E q \in {"GET /foo", BrokenBody} : Response(0, q, TRUE)
    \/ \E r \in Held : Wrap(r, LastErr)
    \/ IsNode(LastErr) /\ ret.op \notin Exports /\ CallToMap(LastErr)
    \/ IsNode(LastErr) /\ ret.op \notin Exports /\ CallLogValue(LastErr)
    \/ IsNode(LastErr) /\ ret.op \notin Exports /\ CallFormatVerbose(LastErr)
    \/ IsNode(LastErr) /\ CallTrace(LastErr)

SpecExport == Init /\ [][NextExport]_vars

(* C22 *)

\* the nodes the resolution of the exported node visits
Visited == Range(recursive(ret.recv))

\* the attribute behind a key of the export was set on some visited node
SetScalar(f) == \E n \in Visited : errs[n][f] # Zero(f)
SetMap(f) == \E n \in Visited : maps[errs[n][f]] # EmptyMap
KeySet(key) ==
    CASE key = "request"  -> SetScalar("req")
      [] key = "response" -> SetScalar("res")
      [] key = "tags"     -> \E n \in Visited : NodeTags(n) # <<>>
      [] key = "context"  -> SetMap("context")
      [] key = "user"     -> SetScalar("userID") \/ SetMap("userData")
      [] key = "tenant"   -> SetScalar("tenantID") \/ SetMap("tenantData")
      [] OTHER            -> SetScalar(key)

OptionalKeys ==
    {"code", "domain", "tags", "context", "trace", "hint", "public", "owner",
     "duration", "user", "tenant", "request", "response"}

\* the object under key has the sub-key id
HasId(key) == key \in DOMAIN ret.val /\ "id" \in DOMAIN ret.val[key]

\* C22 as stated: ToMap() has the key of an attribute exactly when the
\* attribute was set on some node of the chain, trace included, and the user
\* and tenant objects have the sub-key id exactly when the resolved id is
\* not empty
C22_OnlySetKeys ==
    ret.op = "OopsError.ToMap" =>
        /\ \A key \in OptionalKeys : key \in DOMAIN ret.val <=> KeySet(key)
        /\ HasId("user") <=> getDeepestErrorAttribute(ret.recv, "userID") # ""
        /\ HasId("tenant") <=> getDeepestErrorAttribute(ret.recv, "tenantID") # ""

\* the request or response of the chain can be dumped
Dumps(f) == Dump(getDeepestErrorAttribute(ret.recv, f)).ok

\* C22: ToMap() always has the key trace, holding the innermost trace of the
\* chain or else a generated identifier; it has the key request or response
\* exactly when one was set and can be dumped; it has every other optional
\* key exactly when the attribute was set on some node of the chain; the
\* user and tenant objects have the sub-key id exactly when the resolved id
\* is not empty or the merged data has the key id
C22_OnlySetKeysButTrace ==
    ret.op = "OopsError.ToMap" =>
        /\ \A key \in OptionalKeys \ {"trace", "request", "response"} :
                key \in DOMAIN ret.val <=> KeySet(key)
        /\ "trace" \in DOMAIN ret.val
        /\ ret.val["trace"] =
                OopsError_Trace(ret.recv, ret.val["trace"])
        /\ ~KeySet("trace") => ret.val["trace"] \in TraceUlids
        /\ "request" \in DOMAIN ret.val <=> KeySet("request") /\ Dumps("req")
        /\ "response" \in DOMAIN ret.val <=> KeySet("response") /\ Dumps("res")
        /\ HasId("user") <=>
                \/ getDeepestErrorAttribute(ret.recv, "userID") # ""
                \/ "id" \in DOMAIN ResolveMap(ret.recv, "userData").val
        /\ HasId("tenant") <=>
                \/ getDeepestErrorAttribute(ret.recv, "tenantID") # ""
                \/ "id" \in DOMAIN ResolveMap(ret.recv, "tenantData").val

\* a chain of two nodes with user data, no user id and nothing else is
\* exported: the keys user and trace are there, code and user.id are not
C22_Witness ==
    /\ ret.op = "OopsError.ToMap"
    /\ Cardinality(Visited) = 2
    /\ ~KeySet("trace")
    /\ "trace" \in DOMAIN ret.val
    /\ "user" \in DOMAIN ret.val
    /\ ~HasId("user")
    /\ "code" \notin DOMAIN ret.val


(* C23 *)

\* argument lists: empty, unpaired, paired, a trailing unpaired element, a
\* key that is not a string, and the same key twice
PairArgs ==
    {<<>>,
     <<StrV("x")>>,
     <<StrV("x"), IntV(1)>>,
     <<StrV("x"), IntV(1), StrV("y")>>,
     <<IntV(9), StrV("x"), StrV("y"), IntV(2)>>,
     <<StrV("x"), IntV(1), StrV("x"), IntV(2)>>}

\* programs that chain up to MaxSetterCalls calls of With, User and Tenant
NextPairs ==
    \/ Len(bld) < MaxSetterCalls /\ \E kv \in PairArgs : With(LastBld, kv)
    \/ Len(bld) < MaxSetterCalls /\
            \E id \in {"", "A"} : \E kv \in PairArgs : User(LastBld, id, kv)
    \/ Len(bld) < MaxSetterCalls /\
            \E id \in {"", "A"} : \E kv \in PairArgs : Tenant(LastBld, id, kv)

SpecPairs == Init /\ [][NextPairs]_vars

\* the pairs of kv: pair i is (kv[2i], kv[2i+1]) counting from 0, and it
\* counts when its key is a string
PairsOf(kv) == {i \in 0..Len(kv) : 2 * i + 1 < Len(kv) /\ kv[2 * i + 1].k = "str"}
PairKeys(kv) == {kv[2 * i + 1].s : i \in PairsOf(kv)}
LastPair(kv, s) ==
    CHOOSE i \in PairsOf(kv) :
        /\ kv[2 * i + 1].s = s
        /\ \A j \in PairsOf(kv) : kv[2 * j + 1].s = s => j <= i

\* map m overlaid with the pairs of kv
Overlay(m, kv) ==
    [s \in DOMAIN m \cup PairKeys(kv) |->
        IF s \in PairKeys(kv) THEN kv[2 * LastPair(kv, s) + 2] ELSE m[s]]

\* map f of the receiver of the last call: empty for the new builder
ReceiverMap(f) == IF ret.recv = 0 THEN EmptyMap ELSE maps[bld[ret.recv][f]]

\* C23: the builder With(kv...) returns has the receiver's context overlaid
\* with the pairs of kv whose key is a string, the last pair of a key winning;
\* an unpaired last element and a pair whose key is no string add nothing and
\* shift nothing; User and Tenant set the id and do the same on their data
C23_PairIntake ==
    /\ ret.op = "With" =>
            maps[bld[ret.val].context] = Overlay(ReceiverMap("context"), ret.arg)
    /\ ret.op = "User" =>
            /\ bld[ret.val].userID = ret.arg[1]
            /\ maps[bld[ret.val].userData] =
                    Overlay(ReceiverMap("userData"), ret.arg[2])
    /\ ret.op = "Tenant" =>
            /\ bld[ret.val].tenantID = ret.arg[1]
            /\ maps[bld[ret.val].tenantData] =
                    Overlay(ReceiverMap("tenantData"), ret.arg[2])

\* With(9, "x", "y", 2) on a builder whose context has x = 1: the pair of the
\* key 9 is skipped and y = 2 is added
C23_Witness ==
    /\ ret.op = "With"
    /\ ret.recv # 0
    /\ ret.arg = <<IntV(9), StrV("x"), StrV("y"), IntV(2)>>
    /\ ReceiverMap("context") = ("x" :> IntV(1))
    /\ maps[bld[ret.val].context] = ("x" :> IntV(1)) @@ ("y" :> IntV(2))


(* C24 *)

\* contexts with and without a trace id and a span id
TraceCtxs == {Ctx(EmptyMap, t, sp) : t \in {"", "T1"}, sp \in {"", "S1"}}

\* programs that chain up to MaxSetterCalls calls of Trace, Span and
\* WithContext and wrap with the latest builder or with the package-level
\* function
NextTrace ==
    \/ Len(bld) < MaxSetterCalls /\ \E v \in StrVals : Trace(LastBld, v)
    \/ Len(bld) < MaxSetterCalls /\ \E v \in StrVals : Span(LastBld, v)
    \/ Len(bld) < MaxSetterCalls /\ \E ctx \in TraceCtxs :
            WithContext(LastBld, ctx, <<>>)
    \/ \E r \in {0, LastBld} : Wrap(r, LastErr)

SpecTrace == Init /\ [][NextTrace]_vars

\* field f of the receiver of the last call: empty for the new builder
ReceiverField(f) == IF ret.recv = 0 THEN "" ELSE bld[ret.recv][f]

\* the builder a setter returned carries the trace and span of its receiver
\* unless the call sets them
LastCallWins ==
    /\ ret.op = "Trace" =>
            /\ bld[ret.val].trace = ret.arg[1]
            /\ bld[ret.val].span = ReceiverField("span")
    /\ ret.op = "Span" =>
            /\ bld[ret.val].span = ret.arg[1]
            /\ bld[ret.val].trace = ReceiverField("trace")
    /\ ret.op = "WithContext" =>
            /\ bld[ret.val].trace =
                    IF ret.arg[1].trace # "" THEN ret.arg[1].trace
                    ELSE ReceiverField("trace")
            /\ bld[ret.val].span =
                    IF ret.arg[1].span # "" THEN ret.arg[1].span
                    ELSE ReceiverField("span")

\* every node has a span, and its stack trace is tagged with it
SpansTagged ==
    \A e \in Nodes : errs[e].span # "" /\ errs[e].stacktrace = newStacktrace(errs[e].span)

\* the spans in use before a node is sealed
SpansInUse ==
    {errs[e].span : e \in Nodes} \cup {bld[b].span : b \in 1..Len(bld)} \cup {""}

\* sealing keeps the span of the builder, generates one when the builder has
\* none, takes the trace of the builder and leaves the builder as it was
SealStep ==
    (ret'.op = "Wrap" /\ ret'.val # 0) =>
        /\ bld' = bld
        /\ errs'[ret'.val].trace = IF ret'.recv = 0 THEN "" ELSE bld[ret'.recv].trace
        /\ IF BuilderSpan(ret'.recv) # ""
           THEN errs'[ret'.val].span = BuilderSpan(ret'.recv)
           ELSE errs'[ret'.val].span \notin SpansInUse

\* C24: the trace and span of a builder are those of the last call that set
\* them, WithContext setting each only when the context carries it; a node is
\* sealed with the span of its builder or, when that is empty, with a
\* generated one, so every node has a span; the stack trace of a node is
\* tagged with the span of the node; sealing does not change the builder
C24_TraceAndSpan == []LastCallWins /\ []SpansTagged /\ [][SealStep]_vars

\* Span(A) then WithContext with a context that carries a trace id and no
\* span id: the builder keeps span A and takes the trace of the context, and
\* a node sealed from it has span A
C24_Witness ==
    /\ Len(bld) = 2
    /\ bld[2].span = "A"
    /\ bld[2].trace = "T1"
    /\ bld[1].trace = ""
    /\ ret.op = "Wrap"
    /\ ret.recv = 2
    /\ errs[ret.val].span = "A"
    /\ \E e \in Nodes : errs[e].span \notin {"", "A", "B", "S1"}


(* C25 *)

\* a context holding a value under a string, under a Stringer, under a
\* pointer to a string and under a key of another type
LookupCtx ==
    Ctx((StrV("k") :> IntV(7)) @@ (StringerV("s") :> IntV(8))
            @@ (PtrV(StrV("p")) :> IntV(9)) @@ (IntV(5) :> IntV(10)),
        "", "")

LookupKeys ==
    {<<StrV("k")>>, <<StringerV("s")>>, <<PtrV(StrV("p"))>>, <<IntV(5)>>,
     <<StrV("absent")>>, <<StrV("k"), IntV(5)>>}

\* programs that chain up to MaxSetterCalls calls of With and WithContext
NextLookup ==
    \/ Len(bld) < MaxSetterCalls /\ With(LastBld, <<StrV("x"), IntV(1)>>)
    \/ Len(bld) < MaxSetterCalls /\
            \E ctx \in {NilCtx, LookupCtx} : \E keys \in LookupKeys :
                WithContext(LastBld, ctx, keys)

SpecLookup == Init /\ [][NextLookup]_vars

\* the value the context holds for the key k as it is
HeldFor(ctx, k) ==
    IF ctx.nil \/ k \notin DOMAIN ctx.vals THEN NilV ELSE ctx.vals[k]

\* C25: after WithContext(ctx, keys...) the context of the builder has, under
\* the string form of every key, the value ctx holds for that key as it was
\* passed, nil when ctx holds none or is nil, and every other entry of the
\* receiver as it was
C25_LookupByKeyAsPassed ==
    ret.op = "WithContext" =>
        LET ctx   == ret.arg[1]
            keys  == ret.arg[2]
            m     == maps[bld[ret.val].context]
            names == {ContextKeyName(keys[i]) : i \in 1..Len(keys)}
        IN  /\ DOMAIN m = DOMAIN ReceiverMap("context") \cup names
            /\ \A i \in 1..Len(keys) :
                    m[ContextKeyName(keys[i])] = HeldFor(ctx, keys[i])
            /\ \A x \in DOMAIN ReceiverMap("context") \ names :
                    m[x] = ReceiverMap("context")[x]


(* C26 *)

\* the keys of the attributes LogValue() returned, and the group under a key
LogKeys == {ret.val[i][1] : i \in 1..Len(ret.val)}
LogGroup(key) == (CHOOSE a \in Range(ret.val) : a[1] = key)[2]

\* the keys LogValue() and ToMap() name alike
SharedKeys ==
    {"code", "time", "duration", "domain", "tags", "trace", "hint", "public",
     "owner", "context", "user", "tenant", "request", "response", "stacktrace"}

\* C26: LogValue() exposes the attributes ToMap() exposes for the same node;
\* its user and tenant groups hold an id entry exactly when the resolved id
\* is not empty and otherwise one entry per key of the merged data, the keys
\* of the user and tenant objects of ToMap(), also when the id is empty and
\* the data is not
C26_LogValueAgreesWithToMap ==
    ret.op = "OopsError.LogValue" =>
        LET exported == ToMapOn(ret.recv, LastTrace).val
        IN  /\ \A key \in SharedKeys : key \in LogKeys <=> key \in DOMAIN exported
            /\ "err" \in LogKeys <=> "error" \in DOMAIN exported
            /\ \A key \in {"user", "tenant"} \cap LogKeys :
                    {a[1] : a \in LogGroup(key)} = DOMAIN exported[key]


(* C27 *)

\* the maps given to the package-level User and Tenant, none empty
PkgData == {("name" :> StrV("test")), ("org" :> StrV("test") @@ "n" :> IntV(1))}

\* programs that make one builder with the package-level User or Tenant,
\* wrap with it or with the package-level Wrap and read the user and tenant
\* of the latest node
NextPkg ==
    \/ Len(bld) = 0 /\ \E id \in StrVals : \E d \in PkgData : oops_User(id, d)
    \/ Len(bld) = 0 /\ \E id \in StrVals : \E d \in PkgData : oops_Tenant(id, d)
    \/ \E r \in Held : \E c \in {1, LastErr} : Wrap(r, c)
    \/ IsNode(LastErr) /\ OopsError_User(LastErr)
    \/ IsNode(LastErr) /\ OopsError_Tenant(LastErr)

SpecPkg == Init /\ [][NextPkg]_vars

\* the last call was a package-level User or Tenant with a map
PkgCall(op) ==
    ret.op = op /\ ret.recv = 0 /\ Len(ret.arg[2]) = 1 /\ ret.arg[2][1].k = "maplit"

\* C27: the builder of the package-level User(userID, data), data being a
\* map, holds userID and every entry of data, and an error built with it
\* resolves User() to that id and that data; the same for Tenant
C27_PackageUserAndTenant ==
    /\ PkgCall("User") =>
            /\ bld[ret.val].userID = ret.arg[1]
            /\ maps[bld[ret.val].userData] = ret.arg[2][1].m
    /\ PkgCall("Tenant") =>
            /\ bld[ret.val].tenantID = ret.arg[1]
            /\ maps[bld[ret.val].tenantData] = ret.arg[2][1].m
    /\ (ret.op \in {"OopsError.User", "OopsError.Tenant"} /\ ret.val[1] # "") =>
            ret.val[2] \in PkgData


(* C28 *)

\* the errors a program may join: two different errors, plain or node
JoinArgs ==
    {es \in (1..Len(errs)) \X (1..Len(errs)) :
        es[1] # es[2] /\ \A i \in 1..2 : errs[es[i]].kind \in {"plain", "oops"}}

\* statements err = oops.Tags(t).Wrap(e1), err = oops.Wrap(e1) and
\* err = oops.Tags(t).Join(x, y), and calls of Tags() and HasTag(tag) on the
\* latest node
NextJoin ==
    \/ \E t \in {<<"a">>, <<"b">>, <<"c">>} : AtStart /\ Tags(0, t)
    \/ WrapLong(Chained, 1)
    \/ \E es \in JoinArgs : JoinLong(Chained, es)
    \/ AtStart /\ IsNode(LastErr) /\ CallTags(LastErr)
    \/ \E tag \in TagNames : AtStart /\ IsNode(LastErr) /\ CallHasTag(LastErr, tag)

SpecJoin == Init /\ [][NextJoin]_vars

\* the nodes made by Join, and the errors joined under such a node
JoinNodes == {j \in Nodes : errs[errs[j].err].kind = "join"}
JoinedUnder(j) == errs[errs[j].err].errs

\* the first of the joined errors, in argument order, that is a node: the
\* joined errors of these programs are plain errors and nodes
FirstJoinedNode(j) ==
    LET es == JoinedUnder(j)
        at == {i \in 1..Len(es) : IsNode(es[i])}
    IN  IF at = {} THEN 0 ELSE es[CHOOSE i \in at : \A k \in at : i <= k]

\* the tags of the nodes from e down, every joined node followed along its
\* first joined node only
RECURSIVE TagsAlongFirst(_)
TagsAlongFirst(e) ==
    IF e = 0 THEN {}
    ELSE Range(NodeTags(e)) \cup
         (IF e \in JoinNodes THEN TagsAlongFirst(FirstJoinedNode(e)) ELSE {})

\* C28: the queries on a node made by Join descend only into the first node
\* found among the joined errors in argument order: Tags() and HasTag() see
\* the tags of the node and those along that first node, never a tag that
\* only a later joined error carries; every joined error is still an element
\* of the joined value
C28_JoinFirstBranchOnly ==
    /\ \A j \in JoinNodes :
            /\ AsOops(errs[j].err) = FirstJoinedNode(j)
            /\ Range(OopsError_Tags(j)) = TagsAlongFirst(j)
            /\ \A tag \in TagNames : OopsError_HasTag(j, tag) <=> tag \in TagsAlongFirst(j)
    /\ ret.op = "Join" => JoinedUnder(ret.val) = <<ret.arg[1], ret.arg[2]>>
    /\ (ret.op = "OopsError.HasTag" /\ ret.recv \in JoinNodes) =>
            (ret.val <=> ret.arg \in TagsAlongFirst(ret.recv))

\* HasTag("b") was called on a node tagged c that joins a node tagged a and a
\* node tagged b, in this order: it returned false
C28_Witness ==
    /\ ret.op = "OopsError.HasTag"
    /\ ret.recv \in JoinNodes
    /\ ret.arg = "b"
    /\ ret.val = FALSE
    /\ NodeTags(ret.recv) = <<"c">>
    /\ Len(JoinedUnder(ret.recv)) = 2
    /\ IsNode(JoinedUnder(ret.recv)[1])
    /\ NodeTags(JoinedUnder(ret.recv)[1]) = <<"a">>
    /\ IsNode(JoinedUnder(ret.recv)[2])
    /\ NodeTags(JoinedUnder(ret.recv)[2]) = <<"b">>


(* the source-file cache of readFile *)

\* file paths and contents, as sequences of characters
GoFile == <<"a", ".", "g", "o">>
GoneFile == <<"m", ".", "g", "o">>
TextFile == <<"b", ".", "t", "x", "t">>
Paths == {GoFile, GoneFile, TextFile}

\* what os.ReadFile(path) can return: one of the contents the file has over
\* time; no content at all is an error
Disk(path) ==
    IF path = GoFile THEN {<<"x", "\n", "y">>, <<"z">>, <<>>}
    ELSE IF path = TextFile THEN {<<"t">>}
    ELSE {}

\* strings.HasSuffix
HasSuffix(str, suffix) ==
    /\ Len(str) >= Len(suffix)
    /\ SubSeq(str, Len(str) - Len(suffix) + 1, Len(str)) = suffix

RECURSIVE Split(_, _)
\* strings.Split(str, sep) for a separator of one character: the pieces
\* between the separators, one piece for a string without any
Split(str, sep) ==
    IF \A i \in 1..Len(str) : str[i] # sep THEN <<str>>
    ELSE LET at == CHOOSE i \in 1..Len(str) :
                        str[i] = sep /\ \A k \in 1..(i - 1) : str[k] # sep
         IN  <<SubSeq(str, 1, at - 1)>> \o Split(SubSeq(str, at + 1, Len(str)), sep)

\* the nil slice of lines
NilLines == <<>>

\* a goroutine that has not called readFile yet
NoCall == [pc |-> "idle", path |-> <<>>, lines |-> NilLines, ok |-> FALSE,
           val |-> <<NilLines, FALSE>>]

\* the goroutines exist, the mutex is free and the cache is empty
InitFiles ==
    /\ arrs = <<>>
    /\ maps = <<>>
    /\ bld = <<>>
    /\ errs = <<Plain(<<"e1">>)>>
    /\ ret = [op |-> "init", recv |-> 0, arg |-> 0, val |-> 0]
    /\ thr = [t \in 1..NThreads |-> NoCall]
    /\ cfg = [DereferencePointers |-> TRUE,
              mutex |-> [readers |-> {}, writer |-> 0],
              cache |-> EmptyMap]

\* one step of goroutine t in readFile: its frame and the package variables
\* after the step
FileStep(t, frame, mutex, cache) ==
    /\ thr' = [thr EXCEPT ![t] = frame]
    /\ cfg' = [cfg EXCEPT !.mutex = mutex, !.cache = cache]
    /\ UNCHANGED <<arrs, maps, bld, errs, ret>>

\* goroutine t calls readFile(path)
CallReadFile(t, path) ==
    /\ thr[t].pc = "idle"
    /\ FileStep(t, [thr[t] EXCEPT !.pc = "RLock", !.path = path], cfg.mutex, cfg.cache)

\* mutex.RLock(): waits while a writer holds the mutex
RLock(t) ==
    /\ thr[t].pc = "RLock"
    /\ cfg.mutex.writer = 0
    /\ FileStep(t, [thr[t] EXCEPT !.pc = "lookup"],
                [cfg.mutex EXCEPT !.readers = @ \cup {t}], cfg.cache)

\* lines, ok := cache[path]
Lookup(t) ==
    /\ thr[t].pc = "lookup"
    /\ FileStep(t,
                IF thr[t].path \in DOMAIN cfg.cache
                THEN [thr[t] EXCEPT !.pc = "RUnlock", !.ok = TRUE,
                                    !.lines = cfg.cache[thr[t].path]]
                ELSE [thr[t] EXCEPT !.pc = "RUnlock"],
                cfg.mutex, cfg.cache)

\* a variant of RUnlock that goes on without releasing the read lock
rUnlockMissing(t) ==
    /\ thr[t].pc = "RUnlock"
    /\ FileStep(t, [thr[t] EXCEPT !.pc = "found"], cfg.mutex, cfg.cache)

\* mutex.RUnlock()
RUnlock(t) ==
    /\ thr[t].pc = "RUnlock"
    /\ FileStep(t, [thr[t] EXCEPT !.pc = "found"],
                [cfg.mutex EXCEPT !.readers = @ \ {t}], cfg.cache)

\* if ok { return lines, true }
ReturnCached(t) ==
    /\ thr[t].pc = "found"
    /\ thr[t].ok
    /\ FileStep(t, [thr[t] EXCEPT !.pc = "done", !.val = <<thr[t].lines, TRUE>>],
                cfg.mutex, cfg.cache)

\* the miss: return nil, false for a path without the suffix .go or a file
\* that cannot be read, else split the content into lines
ReadFromDisk(t) ==
    /\ thr[t].pc = "found"
    /\ ~thr[t].ok
    /\ IF ~HasSuffix(thr[t].path, <<".", "g", "o">>) \/ Disk(thr[t].path) = {}
       THEN FileStep(t, [thr[t] EXCEPT !.pc = "done", !.val = <<NilLines, FALSE>>],
                     cfg.mutex, cfg.cache)
       ELSE \E b \in Disk(thr[t].path) :
                FileStep(t, [thr[t] EXCEPT !.pc = "Lock", !.lines = Split(b, "\n")],
                         cfg.mutex, cfg.cache)

\* mutex.Lock(): waits while a reader or a writer holds the mutex
Lock(t) ==
    /\ thr[t].pc = "Lock"
    /\ cfg.mutex.writer = 0
    /\ cfg.mutex.readers = {}
    /\ FileStep(t, [thr[t] EXCEPT !.pc = "store"],
                [cfg.mutex EXCEPT !.writer = t], cfg.cache)

\* cache[path] = lines
Store(t) ==
    /\ thr[t].pc = "store"
    /\ FileStep(t, [thr[t] EXCEPT !.pc = "Unlock"], cfg.mutex,
                MapSet(cfg.cache, thr[t].path, thr[t].lines))

\* mutex.Unlock(); return lines, true
Unlock(t) ==
    /\ thr[t].pc = "Unlock"
    /\ FileStep(t, [thr[t] EXCEPT !.pc = "done", !.val = <<thr[t].lines, TRUE>>],
                [cfg.mutex EXCEPT !.writer = 0], cfg.cache)

\* the steps of a call that is under way
Running(t) ==
    \/ RLock(t)
    \/ Lookup(t)
    \/ RUnlock(t)
    \/ ReturnCached(t)
    \/ ReadFromDisk(t)
    \/ Lock(t)
    \/ Store(t)
    \/ Unlock(t)

NextFiles ==
    \/ \E t \in Threads : \E path \in Paths : CallReadFile(t, path)
    \/ \E t \in Threads : RLock(t)
    \/ \E t \in Threads : Lookup(t)
    \/ \E t \in Threads : RUnlock(t)
    \/ \E t \in Threads : ReturnCached(t)
    \/ \E t \in Threads : ReadFromDisk(t)
    \/ \E t \in Threads : Lock(t)
    \/ \E t \in Threads : Store(t)
    \/ \E t \in Threads : Unlock(t)

\* every goroutine that is in a call is scheduled again
SpecFiles ==
    InitFiles /\ [][NextFiles]_vars /\ \A t \in 1..NThreads : WF_vars(Running(t))


(* C29 *)

\* goroutine t is between RLock and RUnlock, or between Lock and Unlock
InRead(t) == thr[t].pc \in {"lookup", "RUnlock"}
InWrite(t) == thr[t].pc \in {"store", "Unlock"}

\* the cache is read under the read lock and written under the write lock,
\* a writer is alone, and a goroutine outside these sections holds no lock
LockDiscipline ==
    \A t \in Threads :
        /\ InRead(t) <=> t \in cfg.mutex.readers
        /\ InWrite(t) <=> cfg.mutex.writer = t
        /\ InWrite(t) => \A u \in Threads \ {t} : ~InRead(u) /\ ~InWrite(u)

\* a call that is over returned the lines it found in the cache or read
\* from the file, and nil, false otherwise
ReturnsOwnLines ==
    \A t \in Threads : thr[t].pc = "done" =>
        IF thr[t].val[2]
        THEN /\ thr[t].val[1] = thr[t].lines
             /\ thr[t].ok \/ \E b \in Disk(thr[t].path) : thr[t].lines = Split(b, "\n")
             /\ HasSuffix(thr[t].path, <<".", "g", "o">>)
        ELSE /\ thr[t].val[1] = NilLines
             /\ thr[t].path \notin DOMAIN cfg.cache

\* the cache changes only by the store of a goroutine that holds the write
\* lock, which puts its own lines under its path; no path leaves the cache
CacheStep ==
    /\ DOMAIN cfg.cache \subseteq DOMAIN cfg'.cache
    /\ cfg'.cache # cfg.cache =>
            \E t \in Threads :
                /\ thr[t].pc = "store"
                /\ cfg.mutex.writer = t
                /\ cfg'.cache = MapSet(cfg.cache, thr[t].path, thr[t].lines)

\* every call returns
CallsReturn == \A t \in 1..NThreads : (thr[t].pc # "idle") ~> (thr[t].pc = "done")

\* C29: in every interleaving of readFile calls the cache is read under the
\* read lock and written under the write lock and no write overlaps another
\* access; a store puts the caller's lines under its path whatever was there
\* (the last store wins), each call returns the lines it obtained, no path is
\* ever removed from the cache, and every call returns, each lock taken
\* being released
C29_CacheUnderConcurrency ==
    /\ [](LockDiscipline /\ ReturnsOwnLines)
    /\ [][CacheStep]_vars
    /\ CallsReturn

\* two goroutines missed on the same path, read different contents and both
\* stored: the cache holds the lines of one, the other returned its own
C29_Witness ==
    /\ \A t \in {1, 2} :
            thr[t].pc = "done" /\ thr[t].path = GoFile /\ ~thr[t].ok /\ thr[t].val[2]
    /\ thr[1].val[1] = <<<<"x">>, <<"y">>>>
    /\ thr[2].val[1] = <<<<"z">>>>
    /\ cfg.cache[GoFile] = <<<<"z">>>>
    /\ cfg.mutex = [readers |-> {}, writer |-> 0]


(* C30 *)

\* the trace of the innermost visited node that has one
InnermostTrace(e) ==
    LET ch == recursive(e)
        at == {i \in 1..Len(ch) : errs[ch[i]].trace # ""}
    IN  errs[ch[CHOOSE i \in at : \A k \in at : k <= i]].trace

\* Trace() and the trace entry of the exports: the innermost trace of the
\* chain or, when no node has one, a generated identifier that no node holds
TraceOrGenerated ==
    ret.op \in Exports =>
        /\ ret.op = "OopsError.ToMap" => "trace" \in DOMAIN ret.val
        /\ ret.op = "OopsError.LogValue" => "trace" \in LogKeys
        /\ ret.op = "OopsError.Format" => "Trace" \in LogKeys
        /\ LastTrace # ""
        /\ IF KeySet("trace") THEN LastTrace = InnermostTrace(ret.recv)
           ELSE /\ LastTrace \in TraceUlids
                /\ \A n \in Nodes : errs[n].trace # LastTrace

\* a call of Trace() stores nothing; a second call in a row agrees with the
\* first when the chain has a trace and returns another generated identifier
\* when it has none, ulid.Make() returning no identifier twice
TraceStep ==
    ret'.op = "OopsError.Trace" =>
        /\ errs' = errs
        /\ (ret.op = "OopsError.Trace" /\ ret.recv = ret'.recv) =>
                IF KeySet("trace") THEN ret'.val = ret.val
                ELSE ret'.val \in TraceUlids \ {ret.val}

\* C30: Trace() returns the innermost non-empty trace of the chain, the same
\* at every call; when no node has a trace it returns a newly generated,
\* non-empty identifier that is not stored in any node, so it is never empty
\* and two calls in a row return different values; ToMap(), LogValue() and
\* the verbose output always have a trace entry
C30_TraceDefault == []TraceOrGenerated /\ [][TraceStep]_vars

\* Trace() was called on a chain of two nodes without a trace and returned a
\* generated identifier
C30_Witness ==
    /\ ret.op = "OopsError.Trace"
    /\ Cardinality(Visited) = 2
    /\ ~KeySet("trace")
    /\ ret.val = "01Y"


====
